---- MODULE Spec2Model ----
(***************************************************************************)
(* Class-index -> vocabulary-term mapping discovery, validation and        *)
(* matching of the vocabulary analyzers (strict, balanced, smart, hybrid,  *)
(* fixed hybrid).  Confidences are carried in percent, as the analyzers'   *)
(* 'confidence_percent'; ratios are compared by cross-multiplication and   *)
(* quality scores are kept as exact fractions num/den.                     *)
(***************************************************************************)
EXTENDS Integers, Sequences, FiniteSets, TLC

VARIABLES
    policy,               \* which analyzer class this run instantiates
    corpus,               \* which classifier outputs this run draws from
    class_mapping,        \* self.class_mapping      : class_idx -> term
    discovered_classes,   \* self.discovered_classes : class_idx -> list of discoveries
    validation_stats,     \* self.validation_stats   : class_idx -> stats
    op,                   \* the method that returned last ("rebuild_again": a rebuild right after a rebuild)
    new_mappings,         \* what the last build_class_mapping_* call returned
    rejected_classes,     \* the classes some rebuild of this run has reported as REJECTED
    predictions,          \* the argument of the last match_vocabulary_terms_* call
    vocab_matches,        \* what the last match_vocabulary_terms_* call returned
    total_cells_analyzed, \* self.total_cells_analyzed
    detection_frequency,  \* self.detection_frequency : term -> count
    position,             \* how many grid cells of the image under analysis are done
    image_expected_vocab, \* the expected_vocab argument of the analyze_image_hybrid call in progress
    image_no,             \* the loop variable i of run_hybrid_analysis / run_balanced_test
    grid_results,         \* the terms of each finished cell's vocab_matches, image in progress
    image_has_correct_detection,
    image_has_any_detection,
    results,              \* self.results / results: one record per image
    run_outcome,          \* "running", "returned" or "raised"
    image_specific_mappings, \* LocationAwareAnalyzer: screenshot_id -> (class_idx -> term)
    fn,                   \* the stand-alone function called last ("none" before any call)
    arg,                  \* its arguments
    out                   \* what it returned

vars == <<policy, corpus, class_mapping, discovered_classes, validation_stats,
          op, new_mappings, rejected_classes, predictions, vocab_matches,
          total_cells_analyzed, detection_frequency, position, image_expected_vocab,
          image_no, grid_results, image_has_correct_detection,
          image_has_any_detection, results, run_outcome, image_specific_mappings,
          fn, arg, out>>

\* what only the image loop of the hybrid analyzers touches
image_vars == <<total_cells_analyzed, detection_frequency, position, image_expected_vocab>>

\* what only the batch loop of a run touches
run_vars == <<image_no, grid_results, image_has_correct_detection,
              image_has_any_detection, results, run_outcome, image_specific_mappings>>

(***************************************************************************)
(* Bounds of the model                                                     *)
(***************************************************************************)
\* observations the Evidence Ledger may hold in total
MaxObs == 3

\* grid cells one run analyses
MaxCells == 5

\* images one batch run processes (end_id - start_id + 1)
MaxImages == 3

\* terms in a vocabulary list handed to the stand-alone functions
MaxVocab == 3

\* width and height, in pixels, of the images cut into grid cells
MaxSide == 6

\* predictions handed to the string matchers in one call
MaxPreds == 2

\* vocabulary matches in the grid results of one frame
MaxMatches == 2

(***************************************************************************)
(* Program constants                                                       *)
(***************************************************************************)
\* get_top_predictions(probabilities, top_k=20)
TopK == 20

Policies == {"strict", "balanced", "smart", "hybrid", "fixed_hybrid"}

IsHybrid(p) == p \in {"hybrid", "fixed_hybrid"}

ClassIds == 1..TopK

\* the vocabulary file, one term per line
vocab_terms == <<"acorn", "Blender">>

\* expected_vocab is None when the vocabulary index is past the end of the list
None == "None"

ExpectedTerms == {vocab_terms[k] : k \in 1..Len(vocab_terms)} \cup {None}

\* str.lower() on the vocabulary's terms
Lower(t) == IF t = "Blender" THEN "blender" ELSE t

problematic_terms == {"blender", "bamboo", "artichoke", "cork", "fork"}

\* the terms a mapping can name: the vocabulary's terms, lower-cased
MappedTerms == {Lower(vocab_terms[k]) : k \in 1..Len(vocab_terms)}

\* the 2x2 grid: top_left, top_right, bottom_left, bottom_right
GridCells == 4

(***************************************************************************)
(* Sequence helpers                                                        *)
(***************************************************************************)
Min2(a, b) == IF a < b THEN a ELSE b

\* Python's s[:n]
Slice(s, n) == SubSeq(s, 1, Min2(n, Len(s)))

RECURSIVE SumConfidence(_)
SumConfidence(ds) ==
    IF ds = <<>> THEN 0 ELSE ds[1].confidence + SumConfidence(Tail(ds))

TotalObservations(dc) ==
    LET RECURSIVE Tot(_)
        Tot(S) == IF S = {} THEN 0
                  ELSE LET c == CHOOSE x \in S : TRUE
                       IN Len(dc[c]) + Tot(S \ {c})
    IN Tot({c \in ClassIds : dc[c] # <<>>})

(***************************************************************************)
(* The classifier's output: get_top_predictions                            *)
(***************************************************************************)
\* A prediction list has TopK entries with pairwise distinct class ids,
\* confidence descending, percentages summing to at most 100.  head gives the
\* first entries as <<class_idx, confidence_percent>>; back names classes
\* that close the list; the classes in between are the remaining ids, all at
\* confidence 0.
MkPredictions(head, back) ==
    LET used == {head[k][1] : k \in 1..Len(head)} \cup {back[k] : k \in 1..Len(back)}
        free == ClassIds \ used
        \* the j-th smallest unused class id
        RECURSIVE Nth(_, _)
        Nth(S, j) == LET m == CHOOSE x \in S : \A y \in S : x <= y
                     IN IF j = 1 THEN m ELSE Nth(S \ {m}, j - 1)
        nb == Len(back)
    IN [i \in 1..TopK |->
          IF i <= Len(head)
          THEN [class_idx |-> head[i][1], confidence_percent |-> head[i][2]]
          ELSE IF i > TopK - nb
               THEN [class_idx |-> back[i - (TopK - nb)], confidence_percent |-> 0]
               ELSE [class_idx |-> Nth(free, i - Len(head)), confidence_percent |-> 0]]

WellFormedPredictions(preds) ==
    /\ Len(preds) = TopK
    /\ \A i, j \in 1..Len(preds) :
          i < j => /\ preds[i].class_idx # preds[j].class_idx
                   /\ preds[i].confidence_percent >= preds[j].confidence_percent
    /\ LET RECURSIVE S(_)
           S(k) == IF k = 0 THEN 0 ELSE preds[k].confidence_percent + S(k - 1)
       IN S(Len(preds)) <= 100

(***************************************************************************)
(* Exact fractions <<num, den>>, den > 0, standing for the analyzers'      *)
(* float ratios                                                            *)
(***************************************************************************)
FracGT(a, b) == a[1] * b[2] > b[1] * a[2]

FracEq(a, b) == a[1] * b[2] = b[1] * a[2]

(***************************************************************************)
(* Evidence Ledger: discover_class_mappings_*                              *)
(***************************************************************************)
\* the analyzer's state a discovery or rebuild call works on
AnalyzerState(cm, dc, vs) == [cm |-> cm, dc |-> dc, vs |-> vs]

\* a threshold test that lets the threshold itself through
ExceedsThresholdInclusive(confidence, min_confidence) == confidence >= min_confidence

\* `if confidence > min_confidence`
ExceedsThreshold(confidence, min_confidence) == confidence > min_confidence

\* `if confidence_gap > min_gap`
ExceedsGap(confidence_gap, min_gap) == confidence_gap > min_gap

\* a discovery that forgets the check below
NotYetMappedUnchecked(class_idx, cm) == TRUE

\* `if class_idx not in self.class_mapping`
NotYetMapped(class_idx, cm) == class_idx \notin DOMAIN cm

\* self.discovered_classes[class_idx].append(discovery_info)
AppendDiscovery(dc, class_idx, info) ==
    [dc EXCEPT ![class_idx] = Append(@, info)]

\* discovery_info of the strict, balanced and smart discovery
DiscoveryInfo(p, expected_vocab, confidence, rank, confidence_gap) ==
    LET common == [expected_vocab |-> expected_vocab, confidence |-> confidence,
                   rank |-> rank, confidence_gap |-> confidence_gap]
    IN IF p = "smart"
       THEN common @@ [is_problematic |-> Lower(expected_vocab) \in problematic_terms]
       ELSE common

\* The loop shared by the strict, balanced and smart discovery: the top
\* min_rank preds, each recorded when its confidence exceeds
\* min_confidence, the list is longer than min_rank, its gap over the
\* prediction right after the top min_rank exceeds min_gap, and its class is
\* not mapped.
RECURSIVE DiscoverLoopGap(_, _, _, _, _, _, _, _)
DiscoverLoopGap(i, preds, min_confidence, min_rank, min_gap, p, expected_vocab, st) ==
    IF i > Len(Slice(preds, min_rank)) THEN st
    ELSE LET pred == preds[i]
             confidence == pred.confidence_percent
             class_idx == pred.class_idx
             confidence_gap == confidence - preds[min_rank + 1].confidence_percent
             record == /\ ExceedsThreshold(confidence, min_confidence)
                       /\ Len(preds) > min_rank
                       /\ ExceedsGap(confidence_gap, min_gap)
                       /\ NotYetMapped(class_idx, st.cm)
             st2 == IF record
                    THEN [st EXCEPT !.dc = AppendDiscovery(st.dc, class_idx,
                                   DiscoveryInfo(p, expected_vocab, confidence, i,
                                                 confidence_gap))]
                    ELSE st
         IN DiscoverLoopGap(i + 1, preds, min_confidence, min_rank, min_gap,
                            p, expected_vocab, st2)

\* the dynamic thresholds of VisualSmartAnalyzer.discover_class_mappings_smart
VisualSmartThresholds(is_problematic) ==
    IF is_problematic THEN <<35, 3, 12>> ELSE <<25, 5, 8>>

\* dynamic thresholds that let more through for the problematic terms
SmartThresholdsLenient(is_problematic) ==
    IF is_problematic THEN <<20, 5, 5>> ELSE <<25, 5, 8>>

\* the smart policy's dynamic thresholds <<min_confidence, min_rank, min_gap>>
SmartThresholds(is_problematic) ==
    IF is_problematic THEN <<40, 2, 15>> ELSE <<25, 5, 8>>

\* <<min_confidence, min_rank, min_gap>> of each gap-based discovery: the
\* confidence to exceed, how many top predictions are looked at, and the gap
\* to exceed over the prediction right after them
DiscoveryThresholds(p, expected_vocab) ==
    CASE p = "strict"   -> <<30, 3, 10>>
      [] p = "balanced" -> <<20, 5, 5>>
      [] p = "smart"    -> SmartThresholds(Lower(expected_vocab) \in problematic_terms)

\* FixedEnhanced21kVocabAnalyzer.discover_class_mappings_strict
discover_class_mappings_strict(preds, expected_vocab, st) ==
    IF expected_vocab = None THEN st
    ELSE LET th == DiscoveryThresholds("strict", expected_vocab)
         IN DiscoverLoopGap(1, preds, th[1], th[2], th[3], "strict", expected_vocab, st)

\* BalancedEnhanced21kVocabAnalyzer.discover_class_mappings_balanced
discover_class_mappings_balanced(preds, expected_vocab, st) ==
    IF expected_vocab = None THEN st
    ELSE LET th == DiscoveryThresholds("balanced", expected_vocab)
         IN DiscoverLoopGap(1, preds, th[1], th[2], th[3], "balanced", expected_vocab, st)

\* SmartBalancedVocabAnalyzer.discover_class_mappings_smart
discover_class_mappings_smart(preds, expected_vocab, st) ==
    IF expected_vocab = None THEN st
    ELSE LET th == DiscoveryThresholds("smart", expected_vocab)
         IN DiscoverLoopGap(1, preds, th[1], th[2], th[3], "smart", expected_vocab, st)

\* an immediate mapping that scores the prediction's 'confidence' (a fraction
\* of one) where the code scores 'confidence_percent'
ImmediateMappingByFraction(st, class_idx, expected_vocab, confidence) ==
    [st EXCEPT
       !.cm = (class_idx :> Lower(expected_vocab)) @@ st.cm,
       !.vs = (class_idx :> [vocab_term |-> expected_vocab,
                             evidence_count |-> 1,
                             avg_confidence |-> <<confidence, 1>>,
                             consistency_ratio |-> <<1, 1>>,
                             quality_score |-> <<confidence, 100>>,
                             mapping_type |-> "immediate_high_confidence"]) @@ st.vs]

\* the hybrid policy's immediate mapping of a very confident prediction
ImmediateMapping(st, class_idx, expected_vocab, confidence) ==
    [st EXCEPT
       !.cm = (class_idx :> Lower(expected_vocab)) @@ st.cm,
       !.vs = (class_idx :> [vocab_term |-> expected_vocab,
                             evidence_count |-> 1,
                             avg_confidence |-> <<confidence, 1>>,
                             consistency_ratio |-> <<1, 1>>,
                             quality_score |-> <<confidence, 1>>,
                             mapping_type |-> "immediate_high_confidence"]) @@ st.vs]

\* HybridVocabAnalyzer.discover_class_mappings_hybrid (the fixed hybrid
\* analyzer's method is the same code)
RECURSIVE DiscoverLoopHybrid(_, _, _, _)
DiscoverLoopHybrid(i, preds, expected_vocab, st) ==
    IF i > Len(Slice(preds, 3)) THEN st
    ELSE LET pred == preds[i]
             confidence == pred.confidence_percent
             class_idx == pred.class_idx
             Info(t) == [expected_vocab |-> expected_vocab, confidence |-> confidence,
                         rank |-> i, mapping_type |-> t]
             st2 ==
               IF ~NotYetMapped(class_idx, st.cm) THEN st
               ELSE IF confidence > 70
                    THEN ImmediateMapping(st, class_idx, expected_vocab, confidence)
               ELSE IF confidence > 50
                    THEN [st EXCEPT !.dc = AppendDiscovery(st.dc, class_idx,
                                                Info("single_evidence_validated"))]
               ELSE IF confidence > 30
                    THEN [st EXCEPT !.dc = AppendDiscovery(st.dc, class_idx,
                                                Info("multiple_evidence_required"))]
               ELSE st
         IN DiscoverLoopHybrid(i + 1, preds, expected_vocab, st2)

discover_class_mappings_hybrid(preds, expected_vocab, st) ==
    IF expected_vocab = None THEN st
    ELSE DiscoverLoopHybrid(1, preds, expected_vocab, st)

\* the discovery method of the analyzer class p
DiscoverOf(p, preds, expected_vocab, st) ==
    CASE p = "strict"   -> discover_class_mappings_strict(preds, expected_vocab, st)
      [] p = "balanced" -> discover_class_mappings_balanced(preds, expected_vocab, st)
      [] p = "smart"    -> discover_class_mappings_smart(preds, expected_vocab, st)
      [] OTHER          -> discover_class_mappings_hybrid(preds, expected_vocab, st)

(***************************************************************************)
(* Mapping Validator: build_class_mapping_*                                *)
(***************************************************************************)
OccurrencesOf(discoveries, t) ==
    Cardinality({k \in 1..Len(discoveries) : discoveries[k].expected_vocab = t})

FirstIndexOf(discoveries, t) ==
    CHOOSE k \in 1..Len(discoveries) :
        /\ discoveries[k].expected_vocab = t
        /\ \A j \in 1..(k - 1) : discoveries[j].expected_vocab # t

\* vocab_counts.most_common(1)[0][0]: the most frequent expected term, the
\* one counted first among equally frequent ones
MostCommonVocab(discoveries) ==
    LET terms == {discoveries[k].expected_vocab : k \in 1..Len(discoveries)}
    IN CHOOSE t \in terms :
         \A u \in terms :
            \/ OccurrencesOf(discoveries, t) > OccurrencesOf(discoveries, u)
            \/ /\ OccurrencesOf(discoveries, t) = OccurrencesOf(discoveries, u)
               /\ FirstIndexOf(discoveries, t) <= FirstIndexOf(discoveries, u)

\* a quality analysis that credits the most common term with every observation
QualityMetricsCountingAll(discoveries, high) ==
    [n                     |-> Len(discoveries),
     total_confidence      |-> SumConfidence(discoveries),
     most_common_vocab     |-> MostCommonVocab(discoveries),
     occurrence_count      |-> Len(discoveries),
     rank_1_count          |->
         Cardinality({k \in 1..Len(discoveries) : discoveries[k].rank = 1}),
     high_confidence_count |->
         Cardinality({k \in 1..Len(discoveries) : discoveries[k].confidence > high})]

\* the quality analysis of one class's discoveries; high is the policy's
\* "high confidence" mark
QualityMetrics(discoveries, high) ==
    LET mc == MostCommonVocab(discoveries)
    IN [n                     |-> Len(discoveries),
        total_confidence      |-> SumConfidence(discoveries),
        most_common_vocab     |-> mc,
        occurrence_count      |-> OccurrencesOf(discoveries, mc),
        rank_1_count          |->
            Cardinality({k \in 1..Len(discoveries) : discoveries[k].rank = 1}),
        high_confidence_count |->
            Cardinality({k \in 1..Len(discoveries) : discoveries[k].confidence > high})]

\* the average confidence a class has to exceed in each analyzer's
\* validation; the smart analyzer asks more of the problematic terms
AvgConfidenceThreshold(p, most_common_vocab) ==
    CASE p = "strict"   -> 40
      [] p = "balanced" -> 25
      [] p = "smart"    -> (IF Lower(most_common_vocab) \in problematic_terms THEN 35 ELSE 25)
      [] OTHER          -> 35

\* validation_passed of build_class_mapping_strict
ValidationPassedStrict(m) ==
    /\ m.total_confidence > AvgConfidenceThreshold("strict", m.most_common_vocab) * m.n
    /\ 5 * m.occurrence_count > 3 * m.n               \* consistency_ratio > 0.6
    /\ m.occurrence_count >= 2
    /\ 10 * m.rank_1_count > 3 * m.n                  \* rank_1_ratio > 0.3

\* the balanced validation with the strict one's last line, rank 1 only
ValidationPassedBalancedRank1Only(m) ==
    /\ m.total_confidence > 25 * m.n
    /\ 2 * m.occurrence_count > m.n
    /\ m.occurrence_count >= 2
    /\ 5 * m.rank_1_count > m.n

\* validation_passed of build_class_mapping_balanced
ValidationPassedBalanced(m) ==
    /\ m.total_confidence > AvgConfidenceThreshold("balanced", m.most_common_vocab) * m.n
    /\ 2 * m.occurrence_count > m.n                   \* consistency_ratio > 0.5
    /\ m.occurrence_count >= 2
    /\ \/ 5 * m.rank_1_count > m.n                    \* rank_1_ratio > 0.2
       \/ 10 * m.high_confidence_count > 3 * m.n      \* high_confidence_ratio > 0.3

\* validation_passed of build_class_mapping_smart
ValidationPassedSmart(m) ==
    IF Lower(m.most_common_vocab) \in problematic_terms
    THEN /\ m.total_confidence > AvgConfidenceThreshold("smart", m.most_common_vocab) * m.n
         /\ 10 * m.occurrence_count > 7 * m.n         \* consistency_ratio > 0.7
         /\ m.occurrence_count >= 3
         /\ 10 * m.high_confidence_count > 4 * m.n    \* high_confidence_ratio > 0.4
    ELSE /\ m.total_confidence > AvgConfidenceThreshold("smart", m.most_common_vocab) * m.n
         /\ 2 * m.occurrence_count > m.n              \* consistency_ratio > 0.5
         /\ m.occurrence_count >= 2

\* a hybrid validation that never lets a single observation through
ValidationPassedHybridMultiOnly(m) ==
    /\ m.n >= 2
    /\ m.total_confidence > 35 * m.n
    /\ 5 * m.occurrence_count > 3 * m.n
    /\ m.occurrence_count >= 2

\* validation_passed of build_class_mapping_hybrid
ValidationPassedHybrid(m) ==
    IF m.n = 1 /\ m.total_confidence > 50 * m.n
    THEN TRUE
    ELSE IF m.n >= 2
         THEN /\ m.total_confidence > AvgConfidenceThreshold("hybrid", m.most_common_vocab) * m.n
              /\ 5 * m.occurrence_count > 3 * m.n     \* consistency_ratio > 0.6
              /\ m.occurrence_count >= 2
         ELSE FALSE

\* the "high confidence" mark of each policy's quality analysis (the strict
\* one counts none)
HighMark(p) ==
    CASE p = "balanced" -> 30
      [] p = "smart"    -> 35
      [] p = "strict"   -> 100
      [] OTHER          -> 50

\* does the rebuild of policy p look at this class at all
Considered(p, class_idx, discoveries, cm) ==
    IF IsHybrid(p)
    THEN class_idx \notin DOMAIN cm /\ discoveries # <<>>
    ELSE Len(discoveries) >= 2

ValidationPassed(p, m) ==
    CASE p = "strict"   -> ValidationPassedStrict(m)
      [] p = "balanced" -> ValidationPassedBalanced(m)
      [] p = "smart"    -> ValidationPassedSmart(m)
      [] OTHER          -> ValidationPassedHybrid(m)

\* one formula for every analyzer: rank-1 ratio plus high-confidence ratio
QualityScoreUniform(p, m) ==
    <<m.total_confidence * m.occurrence_count
         * (m.rank_1_count + m.high_confidence_count), m.n * m.n * m.n>>

\* quality_score as a fraction
QualityScore(p, m) ==
    CASE p = "strict" ->
           <<m.total_confidence * m.occurrence_count * m.rank_1_count, m.n * m.n * m.n>>
      [] p \in {"balanced", "smart"} ->
           <<m.total_confidence * m.occurrence_count
                * (m.rank_1_count + m.high_confidence_count), m.n * m.n * m.n>>
      [] OTHER ->
           <<m.total_confidence * m.occurrence_count
                * (m.n + m.high_confidence_count), m.n * m.n * m.n>>

\* the self.validation_stats[class_idx] entry a rebuild writes
StatsEntry(p, m) ==
    LET common == [vocab_term        |-> m.most_common_vocab,
                   evidence_count    |-> m.n,
                   avg_confidence    |-> <<m.total_confidence, m.n>>,
                   consistency_ratio |-> <<m.occurrence_count, m.n>>,
                   quality_score     |-> QualityScore(p, m)]
        rank1 == [rank_1_ratio |-> <<m.rank_1_count, m.n>>]
        high == [high_confidence_ratio |-> <<m.high_confidence_count, m.n>>]
    IN CASE p = "strict"   -> common @@ rank1
         [] p = "balanced" -> common @@ rank1 @@ high
         [] p = "smart"    ->
              common @@ rank1 @@ high @@
              [is_problematic_term |-> Lower(m.most_common_vocab) \in problematic_terms]
         [] OTHER ->
              common @@ high @@
              [mapping_type |-> IF m.n = 1 THEN "single_high_confidence"
                                ELSE "multiple_evidence_validated"]

\* a rebuild that discards the evidence of the classes it rejects
BuildClassMappingDroppingRejected(p, st) ==
    LET M(c) == QualityMetrics(st.dc[c], HighMark(p))
        looked == {c \in ClassIds : Considered(p, c, st.dc[c], st.cm)}
        passed == {c \in looked : ValidationPassed(p, M(c))}
        new == [c \in passed |-> Lower(M(c).most_common_vocab)]
    IN [cm           |-> new @@ st.cm,
        dc           |-> [c \in ClassIds |-> IF c \in looked \ passed THEN <<>> ELSE st.dc[c]],
        vs           |-> [c \in passed |-> StatsEntry(p, M(c))] @@ st.vs,
        new_mappings |-> new,
        rejected     |-> looked \ passed]

\* build_class_mapping_strict / _balanced / _smart / _hybrid: the classes
\* that pass validation become new_mappings, their stats are written, and
\* self.class_mapping.update(new_mappings); the others are reported as
\* REJECTED
BuildClassMapping(p, st) ==
    LET M(c) == QualityMetrics(st.dc[c], HighMark(p))
        looked == {c \in ClassIds : Considered(p, c, st.dc[c], st.cm)}
        passed == {c \in looked : ValidationPassed(p, M(c))}
        new == [c \in passed |-> Lower(M(c).most_common_vocab)]
    IN [cm           |-> new @@ st.cm,
        dc           |-> st.dc,
        vs           |-> [c \in passed |-> StatsEntry(p, M(c))] @@ st.vs,
        new_mappings |-> new,
        rejected     |-> looked \ passed]

(***************************************************************************)
(* Vocabulary Matcher: match_vocabulary_terms_*                            *)
(***************************************************************************)
\* `for pred in preds[:10]` (strict, hybrid) or `[:15]` (balanced, smart)
TopN(p) == IF p \in {"balanced", "smart"} THEN 15 ELSE 10

\* self.validation_stats.get(class_idx, {}).get('quality_score', 0)
QualityOf(vs, class_idx) ==
    IF class_idx \in DOMAIN vs THEN vs[class_idx].quality_score ELSE <<0, 1>>

\* self.validation_stats.get(class_idx, {}).get('mapping_type', 'unknown')
MappingTypeOf(vs, class_idx) ==
    IF class_idx \in DOMAIN vs THEN vs[class_idx].mapping_type ELSE "unknown"

\* a lookup of a key the build never stores, which always gets the default
IsProblematicOfMissingKey(vs, class_idx) == FALSE

\* self.validation_stats.get(class_idx, {}).get('is_problematic_term', False)
IsProblematicOf(vs, class_idx) ==
    IF class_idx \in DOMAIN vs THEN vs[class_idx].is_problematic_term ELSE FALSE

\* a floor that drops every weak prediction, whatever its term and analyzer
SkippedByFloor(p, vs, pred) == pred.confidence_percent < 35

\* the smart matcher's `if is_problematic and pred['confidence_percent'] < 35.0: continue`
SkippedBySmartFloor(p, vs, pred) ==
    /\ p = "smart"
    /\ IsProblematicOf(vs, pred.class_idx)
    /\ pred.confidence_percent < 35

\* the dict appended to vocab_matches for one prediction
MatchEntry(p, cm, vs, pred, rank) ==
    LET common == [vocab_term    |-> cm[pred.class_idx],
                   match_type    |-> IF IsHybrid(p) THEN "hybrid_mapping"
                                     ELSE "validated_mapping",
                   class_idx     |-> pred.class_idx,
                   rank          |-> rank,
                   \* pred['confidence'], carried in percent like every confidence here
                   similarity    |-> pred.confidence_percent,
                   quality_score |-> QualityOf(vs, pred.class_idx)]
    IN CASE IsHybrid(p) -> common @@ [mapping_type |-> MappingTypeOf(vs, pred.class_idx)]
         [] p = "smart" -> common @@ [is_problematic_term |-> IsProblematicOf(vs, pred.class_idx)]
         [] OTHER       -> common

\* the sort key (-similarity, -quality_score): does a sort strictly before b
SortsBefore(a, b) ==
    \/ a.similarity > b.similarity
    \/ /\ a.similarity = b.similarity
       /\ FracGT(a.quality_score, b.quality_score)

\* list.sort is stable: x goes before the first entry it sorts strictly before
RECURSIVE InsertSorted(_, _)
InsertSorted(sorted, x) ==
    IF sorted = <<>> THEN <<x>>
    ELSE IF SortsBefore(x, sorted[1]) THEN <<x>> \o sorted
    ELSE <<sorted[1]>> \o InsertSorted(Tail(sorted), x)

\* the matches left in prediction order
SortMatchesUnsorted(ms) == ms

\* vocab_matches.sort(key=lambda x: (x['similarity'], x['quality_score']), reverse=True)
RECURSIVE SortMatches(_)
SortMatches(ms) ==
    IF ms = <<>> THEN <<>>
    ELSE InsertSorted(SortMatches(SubSeq(ms, 1, Len(ms) - 1)), ms[Len(ms)])

\* vocab_matches before the sort
RECURSIVE CollectMatches(_, _, _, _, _, _)
CollectMatches(i, p, preds, top_n, cm, vs) ==
    IF i > Len(Slice(preds, top_n)) THEN <<>>
    ELSE LET pred == preds[i]
             rest == CollectMatches(i + 1, p, preds, top_n, cm, vs)
         IN IF pred.class_idx \in DOMAIN cm /\ ~SkippedBySmartFloor(p, vs, pred)
            THEN <<MatchEntry(p, cm, vs, pred, i)>> \o rest
            ELSE rest

\* match_vocabulary_terms_fixed / _balanced / _smart / _hybrid
MatchVocabularyTerms(p, preds, cm, vs) ==
    SortMatches(CollectMatches(1, p, preds, TopN(p), cm, vs))

(***************************************************************************)
(* The classifier outputs the model draws from                             *)
(***************************************************************************)
\* the two classes the lists move around, in either order
LivePairs == {<<1, 2>>, <<2, 1>>}

\* Lists for the acceptance, rebuild and matching scenarios: a confident
\* class next to a weak one, a class just over the discovery threshold, a
\* class past the matcher's reach.
StrictLists ==
    UNION {{MkPredictions(<<<<c[1], 31>>>>, <<c[2]>>),
            MkPredictions(<<<<c[1], 50>>, <<c[2], 45>>>>, <<>>)}
           : c \in LivePairs}

BalancedLists ==
    UNION {{MkPredictions(<<<<c[1], 21>>>>, <<c[2]>>),
            MkPredictions(<<<<c[1], 82>>, <<c[2], 5>>>>, <<>>)}
           : c \in LivePairs}

SmartLists ==
    {MkPredictions(<<<<c[1], 82>>, <<c[2], 5>>>>, <<>>) : c \in LivePairs}

HybridLists ==
    UNION {{MkPredictions(<<<<c[1], 71>>>>, <<c[2]>>),
            MkPredictions(<<<<c[1], 51>>, <<c[2], 31>>>>, <<>>)}
           : c \in LivePairs}
    \cup {MkPredictions(<<<<1, 30>>, <<2, 30>>>>, <<>>)}

\* Lists on both sides of each discovery threshold, and lists whose gap over
\* the cut-off prediction is exactly the minimum gap.
StrictBoundaryLists ==
    {MkPredictions(<<<<1, 30>>>>, <<2>>),
     MkPredictions(<<<<1, 31>>>>, <<2>>),
     MkPredictions(<<<<1, 50>>, <<2, 45>>>>, <<>>),
     MkPredictions(<<<<1, 31>>, <<2, 22>>, <<3, 21>>, <<4, 21>>>>, <<>>)}

BalancedBoundaryLists ==
    {MkPredictions(<<<<1, 20>>>>, <<2>>),
     MkPredictions(<<<<1, 21>>>>, <<2>>),
     MkPredictions(<<<<1, 82>>, <<2, 5>>>>, <<>>)}

SmartBoundaryLists ==
    {MkPredictions(<<<<1, 25>>>>, <<2>>),
     MkPredictions(<<<<1, 26>>>>, <<2>>),
     MkPredictions(<<<<1, 40>>, <<2, 5>>>>, <<>>),
     MkPredictions(<<<<1, 41>>, <<2, 5>>>>, <<>>),
     MkPredictions(<<<<1, 41>>, <<2, 26>>, <<3, 26>>>>, <<>>)}

\* Lists that put two classes over the discovery threshold at once, the
\* second one at rank 2: above and below the balanced analyzer's
\* high-confidence mark of 30%, and in a tie.
StrictPairedLists ==
    UNION {{MkPredictions(<<<<c[1], 50>>, <<c[2], 45>>>>, <<>>),
            MkPredictions(<<<<c[1], 31>>>>, <<c[2]>>)}
           : c \in LivePairs}

BalancedPairedLists ==
    UNION {{MkPredictions(<<<<c[1], 40>>, <<c[2], 35>>>>, <<>>),
            MkPredictions(<<<<c[1], 28>>, <<c[2], 28>>>>, <<>>)}
           : c \in LivePairs}
    \cup {MkPredictions(<<<<1, 21>>>>, <<2>>)}

\* Lists around the smart matcher's 35% floor, after a confident list that
\* gets a class mapped.
SmartFloorLists ==
    {MkPredictions(<<<<1, 82>>, <<2, 5>>>>, <<>>),
     MkPredictions(<<<<1, 34>>>>, <<2>>),
     MkPredictions(<<<<1, 35>>>>, <<2>>)}

\* Lists for the batch runs: a class the hybrid discovery maps at once and a
\* class it records for the next rebuild, with the first class behind it; for
\* the balanced run, a confident class and a list that keeps that class out
\* of the matcher's reach.
HybridRunLists ==
    {MkPredictions(<<<<1, 71>>>>, <<2>>),
     MkPredictions(<<<<2, 51>>, <<1, 5>>>>, <<>>)}

BalancedRunLists ==
    {MkPredictions(<<<<1, 82>>, <<2, 5>>>>, <<>>),
     MkPredictions(<<<<2, 5>>>>, <<1>>)}

RunSuites == {"run", "run_from_3"}

\* Lists for the quality scores: two classes recorded at once, one at rank 1
\* and one at rank 2, on both sides of the analyzers' high-confidence marks.
QualityLists(p) ==
    CASE p = "strict"   -> {MkPredictions(<<<<c[1], 50>>, <<c[2], 45>>>>, <<>>) : c \in LivePairs}
      [] p = "balanced" -> {MkPredictions(<<<<c[1], 40>>, <<c[2], 28>>>>, <<>>) : c \in LivePairs}
      [] p = "smart"    -> {MkPredictions(<<<<c[1], 40>>, <<c[2], 28>>>>, <<>>) : c \in LivePairs}
      [] OTHER          -> {MkPredictions(<<<<c[1], 51>>, <<c[2], 31>>>>, <<>>) : c \in LivePairs}

\* Lists for the ledger of a mapped class: one class far above the
\* analyzer's discovery and validation thresholds, the other far below.
LedgerLists(p) ==
    CASE p = "strict"   -> {MkPredictions(<<<<c[1], 50>>, <<c[2], 5>>>>, <<>>) : c \in LivePairs}
      [] p = "balanced" -> {MkPredictions(<<<<c[1], 82>>, <<c[2], 5>>>>, <<>>) : c \in LivePairs}
      [] OTHER          -> {MkPredictions(<<<<c[1], 51>>, <<c[2], 5>>>>, <<>>) : c \in LivePairs}

PredictionLists(p, suite) ==
    IF suite \in RunSuites
    THEN (IF p = "balanced" THEN BalancedRunLists ELSE HybridRunLists)
    ELSE IF suite = "floor" THEN SmartFloorLists
    ELSE IF suite = "quality" THEN QualityLists(p)
    ELSE IF suite = "ledger" THEN LedgerLists(p)
    ELSE IF suite = "boundary"
    THEN CASE p = "strict"   -> StrictBoundaryLists
           [] p = "balanced" -> BalancedBoundaryLists
           [] OTHER          -> SmartBoundaryLists
    ELSE IF suite = "paired"
    THEN CASE p = "strict"   -> StrictPairedLists
           [] OTHER          -> BalancedPairedLists
    ELSE CASE p = "strict"   -> StrictLists
           [] p = "balanced" -> BalancedLists
           [] p = "smart"    -> SmartLists
           [] OTHER          -> HybridLists

\* some list of the suite, for the calls whose outcome no list changes
AnyPredictionList(p, suite) == CHOOSE preds \in PredictionLists(p, suite) : TRUE

(***************************************************************************)
(* The analyzer as a state machine: one action per public method           *)
(***************************************************************************)
EmptyDict == <<>>

\* start_id of the run: 4 by default; 3 is a caller's earlier start
StartId(suite) == IF suite = "run_from_3" THEN 3 ELSE 4

\* runs is a set of <<analyzer, suite>> pairs
InitProgram(runs) ==
    /\ \E run \in runs : policy = run[1] /\ corpus = run[2]
    /\ class_mapping = EmptyDict
    /\ discovered_classes = [c \in ClassIds |-> <<>>]
    /\ validation_stats = EmptyDict
    /\ op = "init"
    /\ new_mappings = EmptyDict
    /\ rejected_classes = {}
    /\ predictions = <<>>
    /\ vocab_matches = <<>>
    /\ total_cells_analyzed = 0
    /\ detection_frequency = [t \in MappedTerms |-> 0]
    /\ position = 0
    /\ image_expected_vocab = None
    /\ image_no = StartId(corpus)
    /\ grid_results = <<>>
    /\ image_has_correct_detection = FALSE
    /\ image_has_any_detection = FALSE
    /\ results = <<>>
    /\ run_outcome = "running"
    /\ image_specific_mappings = EmptyDict

\* the analyzers' state after construction, no stand-alone function called
InitOf(runs) ==
    /\ InitProgram(runs)
    /\ fn = "none"
    /\ arg = <<>>
    /\ out = <<>>

\* The ledger's room in observations.  A class recorded at rank 2 is recorded
\* together with the class at rank 1 (whose confidence and gap are larger),
\* so the paired lists need one observation more to give a class two rank-2
\* observations next to a mapped class.
LedgerRoom(suite) == IF suite \in {"paired", "quality"} THEN MaxObs + 1 ELSE MaxObs

\* The strict, balanced, smart and hybrid analyzers' runs call discovery,
\* rebuild and matching at different points of their image loops (per cell,
\* per image, at the end), so these are separate steps in any order; the
\* fixed hybrid analyzer's methods run only inside its grid loop, AnalyzeCell.
CalledDirectly(p) == p # "fixed_hybrid"

\* discover_class_mappings_*(predictions, expected_vocab)
Discover(preds, expected_vocab) ==
    LET st == DiscoverOf(policy, preds, expected_vocab,
                         AnalyzerState(class_mapping, discovered_classes, validation_stats))
    IN /\ CalledDirectly(policy)
       /\ TotalObservations(st.dc) <= LedgerRoom(corpus)
       /\ class_mapping' = st.cm
       /\ discovered_classes' = st.dc
       /\ validation_stats' = st.vs
       /\ op' = "discover"
       /\ new_mappings' = EmptyDict
       /\ UNCHANGED rejected_classes
       /\ predictions' = <<>>
       /\ vocab_matches' = <<>>
       /\ UNCHANGED <<fn, arg, out, policy, corpus>>
       /\ UNCHANGED image_vars
       /\ UNCHANGED run_vars

\* build_class_mapping_*()
Rebuild ==
    LET r == BuildClassMapping(policy,
                 AnalyzerState(class_mapping, discovered_classes, validation_stats))
    IN /\ CalledDirectly(policy)
       /\ class_mapping' = r.cm
       /\ discovered_classes' = r.dc
       /\ validation_stats' = r.vs
       /\ op' = IF op \in {"rebuild", "rebuild_again"} THEN "rebuild_again" ELSE "rebuild"
       /\ new_mappings' = r.new_mappings
       /\ rejected_classes' = rejected_classes \cup r.rejected
       /\ predictions' = <<>>
       /\ vocab_matches' = <<>>
       /\ UNCHANGED <<fn, arg, out, policy, corpus>>
       /\ UNCHANGED image_vars
       /\ UNCHANGED run_vars

\* match_vocabulary_terms_*(predictions)
\* a matcher that uses up the pending evidence of the classes it matches
MatchConsumingEvidence(preds) ==
    /\ CalledDirectly(policy)
    /\ predictions' = preds
    /\ vocab_matches' = MatchVocabularyTerms(policy, preds, class_mapping, validation_stats)
    /\ op' = "match"
    /\ new_mappings' = EmptyDict
    /\ discovered_classes' =
           [c \in ClassIds |->
               IF \E k \in 1..Len(vocab_matches') : vocab_matches'[k].class_idx = c
               THEN <<>> ELSE discovered_classes[c]]
    /\ UNCHANGED rejected_classes
    /\ UNCHANGED <<fn, arg, out, policy, corpus, class_mapping, validation_stats>>
    /\ UNCHANGED image_vars
    /\ UNCHANGED run_vars

\* match_vocabulary_terms_*: nothing but the returned list is produced
Match(preds) ==
    /\ CalledDirectly(policy)
    /\ predictions' = preds
    /\ vocab_matches' = MatchVocabularyTerms(policy, preds, class_mapping, validation_stats)
    /\ op' = "match"
    /\ new_mappings' = EmptyDict
    /\ UNCHANGED rejected_classes
    /\ UNCHANGED <<fn, arg, out, policy, corpus, class_mapping, discovered_classes, validation_stats>>
    /\ UNCHANGED image_vars
    /\ UNCHANGED run_vars

\* discovery returns at once when expected_vocab is None, whatever the list
MethodCalls ==
    \/ \E preds \in PredictionLists(policy, corpus), expected_vocab \in ExpectedTerms \ {None} :
          Discover(preds, expected_vocab)
    \/ Discover(AnyPredictionList(policy, corpus), None)
    \/ Rebuild
    \/ \E preds \in PredictionLists(policy, corpus) : Match(preds)

IsRebuild(o) == o \in {"rebuild", "rebuild_again"}

\* a cell loop that leaves the rebuild to the end of the image, as
\* HybridVocabAnalyzer.run_hybrid_analysis does
CellBuildDeferred(p, st) ==
    [cm |-> st.cm, dc |-> st.dc, vs |-> st.vs, new_mappings |-> EmptyDict, rejected |-> {}]

\* `self.build_class_mapping_hybrid()` right after the cell's discovery
CellBuild(p, st) == BuildClassMapping(p, st)

\* `self.detection_frequency[match['vocab_term']] += 1` for every match
CountDetections(freq, ms) ==
    [t \in MappedTerms |->
        freq[t] + Cardinality({k \in 1..Len(ms) : ms[k].vocab_term = t})]

\* One turn of the grid loop of FixedHybridAnalyzer.analyze_image_hybrid:
\* the cell's predictions are recorded, the mapping is rebuilt, the same
\* predictions are matched and the detections are counted.  The four cells
\* of an image share the image's expected_vocab.
AnalyzeCell(preds, expected_vocab) ==
    LET st0 == AnalyzerState(class_mapping, discovered_classes, validation_stats)
        st1 == discover_class_mappings_hybrid(preds, expected_vocab, st0)
        r == CellBuild(policy, st1)
        ms == MatchVocabularyTerms(policy, preds, r.cm, r.vs)
    IN /\ policy = "fixed_hybrid"
       /\ total_cells_analyzed < MaxCells
       /\ TotalObservations(st1.dc) <= LedgerRoom(corpus)
       /\ IF position \in {0, GridCells}
          THEN position' = 1
          ELSE /\ expected_vocab = image_expected_vocab
               /\ position' = position + 1
       /\ image_expected_vocab' = expected_vocab
       /\ total_cells_analyzed' = total_cells_analyzed + 1
       /\ class_mapping' = r.cm
       /\ discovered_classes' = r.dc
       /\ validation_stats' = r.vs
       /\ new_mappings' = r.new_mappings
       /\ rejected_classes' = rejected_classes \cup r.rejected
       /\ predictions' = preds
       /\ vocab_matches' = ms
       /\ detection_frequency' = CountDetections(detection_frequency, ms)
       /\ op' = "cell"
       /\ UNCHANGED <<fn, arg, out, policy, corpus>>
       /\ UNCHANGED run_vars

NextCells ==
    \E preds \in PredictionLists(policy, corpus), expected_vocab \in ExpectedTerms :
        AnalyzeCell(preds, expected_vocab)

Next ==
    \/ MethodCalls
    \/ NextCells

(***************************************************************************)
(* The batch runs: run_hybrid_analysis and run_balanced_test               *)
(***************************************************************************)
\* end_id of the run
EndId(suite) == StartId(suite) + MaxImages - 1

\* vocab_index = i - 4
\* expected_vocab = self.vocab_terms[vocab_index] if vocab_index < len(self.vocab_terms) else None
\* (a negative index counts from the end of the list; the starts drawn here
\* keep it within the list)
ExpectedVocabAt(i) ==
    LET vocab_index == i - 4
    IN IF vocab_index < Len(vocab_terms)
       THEN (IF vocab_index >= 0 THEN vocab_terms[vocab_index + 1]
             ELSE vocab_terms[Len(vocab_terms) + vocab_index + 1])
       ELSE None

\* the rebuild after image i: the hybrid run rebuilds after every image, the
\* balanced run `if i % 4 == 0`
RunBuild(p, i, st) ==
    IF p = "hybrid" \/ i % 4 = 0
    THEN BuildClassMapping(p, st)
    ELSE [cm |-> st.cm, dc |-> st.dc, vs |-> st.vs, new_mappings |-> EmptyDict, rejected |-> {}]

\* the record of an image whose analysis raised
FailedResult(i, error) == [screenshot_id |-> i, error |-> error, success |-> FALSE]

\* the terms matched in some cell
MatchedTerms(cells) ==
    {t \in MappedTerms :
        \E n \in 1..Len(cells) :
           \E j \in 1..Len(cells[n].vocab_matches) : cells[n].vocab_matches[j] = t}

\* the record of an analysed image; its grid_results are kept as the set of
\* terms the cells matched
SuccessResult(i, expected_vocab, cells, correct, any) ==
    [screenshot_id         |-> i,
     expected_vocab        |-> expected_vocab,
     grid_results          |-> MatchedTerms(cells),
     has_correct_detection |-> correct,
     has_any_detection     |-> any,
     success               |-> TRUE]

\* a classifier exception in a cell: analyze_grid_cell_balanced catches it and
\* returns a cell result with an error; analyze_image_hybrid has no handler
\* inside its cell loop, so its outer handler returns a failed image
CellExceptionFailsImage(p) == p = "hybrid"

\* a comparison of the matched term with the expected term as written
CellHasCorrectCaseSensitive(terms, expected_vocab) ==
    /\ expected_vocab # None
    /\ \E k \in 1..Len(terms) : terms[k] = expected_vocab

\* `if expected_vocab and vocab_term.lower() == expected_vocab.lower()` for
\* some match of the cell
CellHasCorrect(terms, expected_vocab) ==
    /\ expected_vocab # None
    /\ \E k \in 1..Len(terms) : Lower(terms[k]) = Lower(expected_vocab)

Running ==
    /\ policy \in {"hybrid", "balanced"}
    /\ corpus \in RunSuites
    /\ run_outcome = "running"

\* requests.get / Image.open raises for image i: the handler records a
\* failed result and the loop goes on with the rebuild after the image
FetchFails ==
    LET r == RunBuild(policy, image_no,
                      AnalyzerState(class_mapping, discovered_classes, validation_stats))
    IN /\ Running
       /\ image_no <= EndId(corpus)
       /\ position = 0
       /\ results' = Append(results, FailedResult(image_no, "fetch"))
       /\ image_no' = image_no + 1
       /\ class_mapping' = r.cm
       /\ discovered_classes' = r.dc
       /\ validation_stats' = r.vs
       /\ new_mappings' = r.new_mappings
       /\ rejected_classes' = rejected_classes \cup r.rejected
       /\ predictions' = <<>>
       /\ vocab_matches' = <<>>
       /\ op' = "fetch_failed"
       /\ UNCHANGED <<fn, arg, out, policy, corpus, image_vars, run_outcome, image_specific_mappings>>
       /\ UNCHANGED <<grid_results, image_has_correct_detection, image_has_any_detection>>

\* One turn of the cell loop for image i (the first turn follows the fetch):
\* predict, discover, match, count the detections, set the image's flags;
\* after the fourth cell the image's record is appended and the loop goes
\* on with the rebuild after the image.  raises: predict_image raises.
RunCell(preds, raises) ==
    LET i == image_no
        expected_vocab == ExpectedVocabAt(i)
        st0 == AnalyzerState(class_mapping, discovered_classes, validation_stats)
        st1 == IF raises THEN st0 ELSE DiscoverOf(policy, preds, expected_vocab, st0)
        ms == IF raises THEN <<>>
              ELSE MatchVocabularyTerms(policy, preds, st1.cm, st1.vs)
        terms == [k \in 1..Len(ms) |-> ms[k].vocab_term]
        any == image_has_any_detection \/ ms # <<>>
        correct == image_has_correct_detection \/ CellHasCorrect(terms, expected_vocab)
        cells == Append(grid_results, [vocab_matches |-> terms, error |-> raises])
        aborted == raises /\ CellExceptionFailsImage(policy)
        image_done == aborted \/ position = GridCells - 1
        r == IF image_done THEN RunBuild(policy, i, st1)
             ELSE [cm |-> st1.cm, dc |-> st1.dc, vs |-> st1.vs,
                   new_mappings |-> EmptyDict, rejected |-> {}]
    IN /\ Running
       /\ image_no <= EndId(corpus)
       /\ position < GridCells
       /\ total_cells_analyzed' =
             IF policy = "hybrid" THEN total_cells_analyzed + 1 ELSE total_cells_analyzed
       /\ detection_frequency' = CountDetections(detection_frequency, ms)
       /\ image_expected_vocab' = expected_vocab
       /\ predictions' = IF raises THEN <<>> ELSE preds
       /\ vocab_matches' = ms
       /\ class_mapping' = r.cm
       /\ discovered_classes' = r.dc
       /\ validation_stats' = r.vs
       /\ new_mappings' = r.new_mappings
       /\ rejected_classes' = rejected_classes \cup r.rejected
       /\ IF image_done
          THEN /\ results' = Append(results,
                                    IF aborted THEN FailedResult(i, "classifier")
                                    ELSE SuccessResult(i, expected_vocab, cells, correct, any))
               /\ image_no' = i + 1
               /\ position' = 0
               /\ grid_results' = <<>>
               /\ image_has_correct_detection' = FALSE
               /\ image_has_any_detection' = FALSE
               /\ op' = "image_done"
          ELSE /\ position' = position + 1
               /\ grid_results' = cells
               /\ image_has_correct_detection' = correct
               /\ image_has_any_detection' = any
               /\ op' = "run_cell"
               /\ UNCHANGED <<results, image_no>>
       /\ UNCHANGED <<fn, arg, out, policy, corpus, run_outcome, image_specific_mappings>>

\* successful_results = [r for r in results if r.get('success')]
SuccessfulResults(rs) == {k \in 1..Len(rs) : rs[k].success}

\* the statistics printed after the loop: run_hybrid_analysis divides by
\* len(successful_results) unguarded, run_balanced_test guards its divisions
StatisticsRaise(p, rs) == p = "hybrid" /\ SuccessfulResults(rs) = {}

\* after the loop: the final rebuild, the statistics, `return self.results`
FinishRun ==
    LET r == BuildClassMapping(policy,
                 AnalyzerState(class_mapping, discovered_classes, validation_stats))
    IN /\ Running
       /\ image_no > EndId(corpus)
       /\ class_mapping' = r.cm
       /\ discovered_classes' = r.dc
       /\ validation_stats' = r.vs
       /\ new_mappings' = r.new_mappings
       /\ rejected_classes' = rejected_classes \cup r.rejected
       /\ predictions' = <<>>
       /\ vocab_matches' = <<>>
       /\ op' = "finish"
       /\ run_outcome' = IF StatisticsRaise(policy, results) THEN "raised" ELSE "returned"
       /\ UNCHANGED <<fn, arg, out, policy, corpus, image_vars>>
       /\ UNCHANGED <<image_no, grid_results, image_has_correct_detection,
                      image_has_any_detection, results, image_specific_mappings>>

(***************************************************************************)
(* The location-aware analyzer and its run                                 *)
(***************************************************************************)
\* every image's mappings thrown together, the later image winning
ImageMappingsAcrossImages(ism, screenshot_id) ==
    [c \in UNION {DOMAIN ism[sid] : sid \in DOMAIN ism} |->
        LET sids == {sid \in DOMAIN ism : c \in DOMAIN ism[sid]}
            latest == CHOOSE sid \in sids : \A other \in sids : other <= sid
        IN ism[latest][c]]

\* self.image_specific_mappings.get(screenshot_id, {})
ImageMappingsOf(ism, screenshot_id) ==
    IF screenshot_id \in DOMAIN ism THEN ism[screenshot_id] ELSE EmptyDict

\* the loop of discover_location_specific_mappings over predictions[:3]
RECURSIVE DiscoverLoopLocation(_, _, _, _)
DiscoverLoopLocation(i, preds, expected_vocab, mappings) ==
    IF i > Len(Slice(preds, 3)) THEN mappings
    ELSE LET pred == preds[i]
             next == IF pred.confidence_percent > 50 /\ pred.class_idx \notin DOMAIN mappings
                     THEN (pred.class_idx :> Lower(expected_vocab)) @@ mappings
                     ELSE mappings
         IN DiscoverLoopLocation(i + 1, preds, expected_vocab, next)

\* discover_location_specific_mappings(predictions, screenshot_id, expected_vocab)
discover_location_specific_mappings(preds, screenshot_id, expected_vocab, ism) ==
    IF expected_vocab = None THEN ism
    ELSE (screenshot_id :>
             DiscoverLoopLocation(1, preds, expected_vocab, ImageMappingsOf(ism, screenshot_id)))
         @@ ism

\* the dict match_vocabulary_terms_location_aware appends for one prediction
LocationMatchEntry(mappings, pred, rank) ==
    [vocab_term    |-> mappings[pred.class_idx],
     match_type    |-> "location_aware_mapping",
     class_idx     |-> pred.class_idx,
     rank          |-> rank,
     similarity    |-> pred.confidence_percent,
     quality_score |-> <<pred.confidence_percent, 1>>,
     mapping_type  |-> "image_specific"]

RECURSIVE CollectLocationMatches(_, _, _)
CollectLocationMatches(i, preds, mappings) ==
    IF i > Len(Slice(preds, 10)) THEN <<>>
    ELSE LET rest == CollectLocationMatches(i + 1, preds, mappings)
         IN IF preds[i].class_idx \in DOMAIN mappings
            THEN <<LocationMatchEntry(mappings, preds[i], i)>> \o rest
            ELSE rest

\* match_vocabulary_terms_location_aware(predictions, screenshot_id); the
\* predictions come in descending confidence, which the stable sort by
\* -similarity keeps
match_vocabulary_terms_location_aware(preds, screenshot_id, ism) ==
    CollectLocationMatches(1, preds, ImageMappingsOf(ism, screenshot_id))

LocationRunning ==
    /\ policy = "location_aware"
    /\ corpus \in RunSuites
    /\ run_outcome = "running"

analyzer_vars == <<class_mapping, discovered_classes, validation_stats,
                   new_mappings, rejected_classes>>

\* the fetch of image i raises inside analyze_image_location_aware
LocationFetchFails ==
    /\ LocationRunning
    /\ image_no <= EndId(corpus)
    /\ position = 0
    /\ results' = Append(results, FailedResult(image_no, "fetch"))
    /\ image_no' = image_no + 1
    /\ predictions' = <<>>
    /\ vocab_matches' = <<>>
    /\ op' = "fetch_failed"
    /\ UNCHANGED <<fn, arg, out, policy, corpus, image_vars, run_outcome, image_specific_mappings>>
    /\ UNCHANGED <<grid_results, image_has_correct_detection, image_has_any_detection>>
    /\ UNCHANGED analyzer_vars

\* one turn of the cell loop of analyze_image_location_aware
LocationCell(preds, raises) ==
    LET i == image_no
        expected_vocab == ExpectedVocabAt(i)
        ism == IF raises THEN image_specific_mappings
               ELSE discover_location_specific_mappings(preds, i, expected_vocab,
                                                        image_specific_mappings)
        ms == IF raises THEN <<>> ELSE match_vocabulary_terms_location_aware(preds, i, ism)
        terms == [k \in 1..Len(ms) |-> ms[k].vocab_term]
        any == image_has_any_detection \/ ms # <<>>
        correct == image_has_correct_detection \/ CellHasCorrect(terms, expected_vocab)
        cells == Append(grid_results, [vocab_matches |-> terms, error |-> raises])
        image_done == raises \/ position = GridCells - 1
    IN /\ LocationRunning
       /\ image_no <= EndId(corpus)
       /\ position < GridCells
       /\ total_cells_analyzed' = total_cells_analyzed + 1
       /\ detection_frequency' = CountDetections(detection_frequency, ms)
       /\ image_expected_vocab' = expected_vocab
       /\ predictions' = IF raises THEN <<>> ELSE preds
       /\ vocab_matches' = ms
       /\ image_specific_mappings' = ism
       /\ IF image_done
          THEN /\ results' = Append(results,
                                    IF raises THEN FailedResult(i, "classifier")
                                    ELSE SuccessResult(i, expected_vocab, cells, correct, any))
               /\ image_no' = i + 1
               /\ position' = 0
               /\ grid_results' = <<>>
               /\ image_has_correct_detection' = FALSE
               /\ image_has_any_detection' = FALSE
               /\ op' = "image_done"
          ELSE /\ position' = position + 1
               /\ grid_results' = cells
               /\ image_has_correct_detection' = correct
               /\ image_has_any_detection' = any
               /\ op' = "run_cell"
               /\ UNCHANGED <<results, image_no>>
       /\ UNCHANGED <<fn, arg, out, policy, corpus, run_outcome>>
       /\ UNCHANGED analyzer_vars

\* after the loop of run_location_aware_analysis: the statistics divide by
\* len(successful_results), then `return self.results`
LocationFinish ==
    /\ LocationRunning
    /\ image_no > EndId(corpus)
    /\ run_outcome' = IF SuccessfulResults(results) = {} THEN "raised" ELSE "returned"
    /\ predictions' = <<>>
    /\ vocab_matches' = <<>>
    /\ op' = "finish"
    /\ UNCHANGED <<fn, arg, out, policy, corpus, image_vars>>
    /\ UNCHANGED <<image_no, grid_results, image_has_correct_detection,
                   image_has_any_detection, results, image_specific_mappings>>
    /\ UNCHANGED analyzer_vars

NextLocation ==
    \/ LocationFetchFails
    \/ \E preds \in PredictionLists(policy, corpus), raises \in BOOLEAN :
          LocationCell(preds, raises)
    \/ LocationFinish

NextRun ==
    \/ FetchFails
    \/ \E preds \in PredictionLists(policy, corpus), raises \in BOOLEAN : RunCell(preds, raises)
    \/ FinishRun

Init == InitOf(Policies \X {"scenario"})

\* all five analyzers
Spec == Init /\ [][Next]_vars

\* one analyzer class, or a few, at a time
SpecBalanced == InitOf({<<"balanced", "scenario">>}) /\ [][MethodCalls]_vars

SpecBalancedSmart ==
    InitOf({"balanced", "smart"} \X {"scenario"}) /\ [][MethodCalls]_vars

SpecBalancedHybrid ==
    InitOf({"balanced", "hybrid"} \X {"scenario"}) /\ [][MethodCalls]_vars

\* the hybrid analyzer through its methods, the fixed hybrid one through its
\* grid loop
SpecHybrid == InitOf({"hybrid", "fixed_hybrid"} \X {"scenario"}) /\ [][Next]_vars

\* the fixed hybrid analyzer alone
SpecFixedHybridCells == InitOf({<<"fixed_hybrid", "scenario">>}) /\ [][NextCells]_vars

\* the threshold boundaries of the three gap-based discoveries
SpecBoundary ==
    InitOf({"strict", "balanced", "smart"} \X {"boundary"}) /\ [][MethodCalls]_vars

\* the strict and balanced analyzers on lists that record two classes at once
SpecStrictBalanced ==
    InitOf({"strict", "balanced"} \X {"paired"}) /\ [][MethodCalls]_vars

SpecBalancedPaired == InitOf({<<"balanced", "paired">>}) /\ [][MethodCalls]_vars

\* the matchers of the balanced and hybrid analyzers, with ties
SpecMatchers ==
    InitOf({<<"balanced", "paired">>, <<"hybrid", "scenario">>}) /\ [][MethodCalls]_vars

\* every list the model draws is a possible classifier output
SpecSmartFloor == InitOf({<<"smart", "floor">>}) /\ [][MethodCalls]_vars

\* the rebuilds of the strict, balanced, smart and hybrid analyzers on
\* evidence at rank 1 and rank 2
SpecQuality ==
    InitOf({"strict", "balanced", "smart", "hybrid"} \X {"quality"}) /\ [][MethodCalls]_vars

\* the strict, balanced, smart and hybrid analyzers on lists that get a class mapped
\* and then show it again
SpecLedger ==
    InitOf({"strict", "balanced", "smart", "hybrid"} \X {"ledger"}) /\ [][MethodCalls]_vars

(***************************************************************************)
(* Stand-alone functions: image number <-> vocabulary index, grid cells    *)
(***************************************************************************)
\* everything the analyzers and their runs hold; the functions below touch
\* none of it
program_vars == <<policy, corpus, class_mapping, discovered_classes, validation_stats,
                  op, new_mappings, rejected_classes, predictions, vocab_matches,
                  image_vars, run_vars>>

\* f"{i:03d}": the decimal digits, padded with zeros to three
Format03d(i) ==
    IF i < 1000 THEN <<i \div 100, (i \div 10) % 10, i % 10>>
    ELSE <<i \div 1000, (i \div 100) % 10, (i \div 10) % 10, i % 10>>

\* int(screenshot_id)
RECURSIVE ParseInt(_)
ParseInt(digits) ==
    IF digits = <<>> THEN 0
    ELSE 10 * ParseInt(SubSeq(digits, 1, Len(digits) - 1)) + digits[Len(digits)]

\* the convention in which image 001 is the first vocabulary term
VocabIndexOfUncorrected(screenshot_num) == screenshot_num - 1

\* vocab_index = screenshot_num - 4
VocabIndexOf(screenshot_num) == screenshot_num - 4

\* screenshot_num = i + 4
ScreenshotNumOf(i) == i + 4

\* the vocabulary lists and image numbers drawn for the calls
VocabWords == {"acorn", "aloe", "antenna"}

VocabLists == UNION {[1..n -> VocabWords] : n \in 0..MaxVocab}

ScreenshotNums == 0..(MaxVocab + 5)

\* grid_results' keys, in the order the analysis wrote them
SelectorPositions == <<"top_left", "top_right", "bottom_left", "bottom_right">>

\* a vocabulary match as the analysis results file holds it
SelectorMatch(vocab_term, confidence) ==
    [vocab_term |-> vocab_term, prediction |-> [confidence_percent |-> confidence]]

\* result['grid_results'] holding the matches placed, in order, in the cells
\* they name: the four cells in the order the analysis wrote them
GridOf(placed) ==
    [k \in 1..Len(SelectorPositions) |->
        LET InCell(pm) == pm[1] = k
            mine == SelectSeq(placed, InCell)
        IN [position |-> SelectorPositions[k],
            vocab_matches |-> [n \in 1..Len(mine) |-> SelectorMatch(mine[n][2], mine[n][3])]]]

\* confidence_percent = float(probabilities[idx] * 100), of a softmax output:
\* above 0
SelectorConfidences == {20, 40, 60}

\* the frames' grid results: up to MaxMatches matches of the two terms
GridResultsMenu ==
    {GridOf(placed) : placed \in
        UNION {[1..n -> (1..Len(SelectorPositions)) \X {"acorn", "Blender"} \X SelectorConfidences] :
                  n \in 0..MaxMatches}}

\* the grid results of the frames whose expected term comes from the list
FixedGridMenu ==
    {GridOf(<<>>), GridOf(<<<<2, "acorn", 60>>>>),
     GridOf(<<<<1, "acorn", 40>>, <<3, "acorn", 60>>, <<4, "Blender", 60>>>>)}

\* the analysis results create_fixed_grid_selection is given, one at a time
SelectionInputs ==
    {[vocab_list |-> vl, screenshot_id |-> Format03d(n), grid_results |-> g] :
        vl \in VocabLists, n \in ScreenshotNums, g \in FixedGridMenu}

\* the analysis results create_simple_grid_selection is given, one at a time
SimpleSelectionInputs ==
    {[expected_vocab |-> t, grid_results |-> g] :
        t \in {vocab_terms[k] : k \in 1..Len(vocab_terms)}, g \in GridResultsMenu}

\* for position, cell_data in grid_results.items(): for match in
\* vocab_matches: the (position, match) pairs in the order the loops meet them
RECURSIVE CellMatchesInOrder(_, _)
CellMatchesInOrder(grid, k) ==
    IF k > Len(grid) THEN <<>>
    ELSE [n \in 1..Len(grid[k].vocab_matches) |->
             [position |-> grid[k].position, match |-> grid[k].vocab_matches[n]]]
         \o CellMatchesInOrder(grid, k + 1)

\* every match for the expected term replaces the best so far
BetterThanBestAlways(confidence, best_confidence) == TRUE

\* if confidence > best_confidence
BetterThanBest(confidence, best_confidence) == confidence > best_confidence

\* best_cell, best_confidence and expected_found_cells after the pairs from
\* n on
RECURSIVE SelectLoop(_, _, _, _)
SelectLoop(pairs, n, expected_vocab, acc) ==
    IF n > Len(pairs) THEN acc
    ELSE LET vocab_term == Lower(pairs[n].match.vocab_term)
             confidence == pairs[n].match.prediction.confidence_percent
         IN SelectLoop(pairs, n + 1, expected_vocab,
                IF vocab_term = Lower(expected_vocab)
                THEN [expected_found_cells |->
                          Append(acc.expected_found_cells,
                                 [position |-> pairs[n].position, confidence |-> confidence]),
                      best_confidence |-> IF BetterThanBest(confidence, acc.best_confidence)
                                          THEN confidence ELSE acc.best_confidence,
                      best_cell |-> IF BetterThanBest(confidence, acc.best_confidence)
                                    THEN pairs[n].position ELSE acc.best_cell]
                ELSE acc)

\* cell_predictions: the first match of every cell, or 'No match'
CellPredictions(grid) ==
    [k \in 1..Len(grid) |->
        IF grid[k].vocab_matches # <<>>
        THEN [position |-> grid[k].position,
              term |-> grid[k].vocab_matches[1].vocab_term,
              confidence |-> grid[k].vocab_matches[1].prediction.confidence_percent]
        ELSE [position |-> grid[k].position, term |-> "No match", confidence |-> 0]]

\* simple_result, but for the screenshot id and the image urls
SimpleResult(grid, expected_vocab) ==
    LET acc == SelectLoop(CellMatchesInOrder(grid, 1), 1, expected_vocab,
                          [expected_found_cells |-> <<>>, best_confidence |-> 0,
                           best_cell |-> None])
    IN [expected_vocab |-> expected_vocab,
        model_selection |-> acc.best_cell,
        selection_confidence |-> acc.best_confidence,
        expected_found_in_cells |-> acc.expected_found_cells,
        all_cell_predictions |-> CellPredictions(grid)]

\* the positions of the vocabulary list the sample listing walks
SampleInputs ==
    {[vocab_list |-> vl, i |-> i] : vl \in VocabLists, i \in 0..(MaxVocab - 1)}

\* the sizes of the images cut into cells
ImageSizes == {[width |-> w, height |-> h] : w \in 1..MaxSide, h \in 1..MaxSide}

\* create_fixed_grid_selection, for one analysis result: the expected term
\* of the image, or unknown_<index> when the index is out of range
CreateFixedGridSelection ==
    /\ fn = "none"
    /\ arg \in SelectionInputs
    /\ LET vocab_list == arg.vocab_list
           screenshot_num == ParseInt(arg.screenshot_id)
           vocab_index == VocabIndexOf(screenshot_num)
           expected_vocab == IF 0 <= vocab_index /\ vocab_index < Len(vocab_list)
                             THEN vocab_list[vocab_index + 1]
                             ELSE "unknown_" \o ToString(vocab_index)
       IN /\ fn' = "create_fixed_grid_selection"
          /\ out' = [vocab_index |-> vocab_index]
                    @@ SimpleResult(arg.grid_results, expected_vocab)
    /\ UNCHANGED <<arg, program_vars>>

\* create_simple_grid_selection, for one analysis result
CreateSimpleGridSelection ==
    /\ fn = "none"
    /\ arg \in SimpleSelectionInputs
    /\ fn' = "create_simple_grid_selection"
    /\ out' = SimpleResult(arg.grid_results, arg.expected_vocab)
    /\ UNCHANGED <<arg, program_vars>>

\* test_vocabulary_mapping's sample listing, for one index i of the list
ShowVocabularySample ==
    /\ fn = "none"
    /\ arg \in SampleInputs
    /\ arg.i < Len(arg.vocab_list)
    /\ fn' = "show_vocabulary_sample"
    /\ out' = [screenshot_id |-> Format03d(ScreenshotNumOf(arg.i)),
               expected_vocab |-> arg.vocab_list[arg.i + 1]]
    /\ UNCHANGED <<arg, program_vars>>

\* four cells of the size of the top-left one, each at its own corner
GridBoxesEqualCells(width, height) ==
    LET cell_width == width \div 2
        cell_height == height \div 2
    IN <<<<0, 0, cell_width, cell_height>>,
         <<cell_width, 0, 2 * cell_width, cell_height>>,
         <<0, cell_height, cell_width, 2 * cell_height>>,
         <<cell_width, cell_height, 2 * cell_width, 2 * cell_height>>>>

\* the crop boxes (left, upper, right, lower) of top_left, top_right,
\* bottom_left, bottom_right
GridBoxes(width, height) ==
    LET cell_width == width \div 2
        cell_height == height \div 2
    IN <<<<0, 0, cell_width, cell_height>>,
         <<cell_width, 0, width, cell_height>>,
         <<0, cell_height, cell_width, height>>,
         <<cell_width, cell_height, width, height>>>>

\* _extract_grid_cells / the grid_cells dict of analyze_image_hybrid
ExtractGridCells ==
    /\ fn = "none"
    /\ arg \in ImageSizes
    /\ fn' = "extract_grid_cells"
    /\ out' = GridBoxes(arg.width, arg.height)
    /\ UNCHANGED <<arg, program_vars>>

(***************************************************************************)
(* Matching class names to vocabulary terms as strings                     *)
(***************************************************************************)
\* A string is the sequence of its characters.
UpperCase == <<"A", "B", "C", "D", "E", "F", "G", "H", "I", "J", "K", "L", "M",
               "N", "O", "P", "Q", "R", "S", "T", "U", "V", "W", "X", "Y", "Z">>

LowerCase == <<"a", "b", "c", "d", "e", "f", "g", "h", "i", "j", "k", "l", "m",
               "n", "o", "p", "q", "r", "s", "t", "u", "v", "w", "x", "y", "z">>

\* str.lower()
LowerChars(text) ==
    [n \in 1..Len(text) |->
        IF \E u \in 1..26 : UpperCase[u] = text[n]
        THEN LowerCase[CHOOSE u \in 1..26 : UpperCase[u] = text[n]]
        ELSE text[n]]

\* str.strip()
Strip(text) ==
    LET inked == {n \in 1..Len(text) : text[n] # " "}
    IN IF inked = {} THEN <<>>
       ELSE SubSeq(text, CHOOSE n \in inked : \A m \in inked : n <= m,
                         CHOOSE n \in inked : \A m \in inked : n >= m)

\* set(str.split()): the maximal runs of characters other than blanks
Words(text) ==
    {SubSeq(text, a, b) : <<a, b>> \in
        {ab \in (1..Len(text)) \X (1..Len(text)) :
            /\ ab[1] <= ab[2]
            /\ \A n \in ab[1]..ab[2] : text[n] # " "
            /\ (ab[1] = 1 \/ text[ab[1] - 1] = " ")
            /\ (ab[2] = Len(text) \/ text[ab[2] + 1] = " ")}}

\* needle in hay
Contains(hay, needle) ==
    \E n \in 0..(Len(hay) - Len(needle)) : SubSeq(hay, n + 1, n + Len(needle)) = needle

\* SequenceMatcher.find_longest_match(alo, ahi, blo, bhi): the longest block
\* a[i:i+k] == b[j:j+k]; of the longest, the one starting earliest in a, and
\* of those the one starting earliest in b
LongestMatch(a, b, alo, ahi, blo, bhi) ==
    LET blocks == {ijk \in (alo..(ahi - 1)) \X (blo..(bhi - 1)) \X (1..(ahi - alo)) :
                      /\ ijk[1] + ijk[3] <= ahi
                      /\ ijk[2] + ijk[3] <= bhi
                      /\ \A d \in 1..ijk[3] : a[ijk[1] + d] = b[ijk[2] + d]}
        Better(x, y) ==
            \/ x[3] > y[3]
            \/ x[3] = y[3] /\ x[1] < y[1]
            \/ x[3] = y[3] /\ x[1] = y[1] /\ x[2] <= y[2]
    IN IF blocks = {} THEN <<alo, blo, 0>>
       ELSE CHOOSE x \in blocks : \A y \in blocks : Better(x, y)

\* the total size of SequenceMatcher.get_matching_blocks(): the longest
\* block, then the same to its left and to its right
RECURSIVE MatchingCharacters(_, _, _, _, _, _)
MatchingCharacters(a, b, alo, ahi, blo, bhi) ==
    LET x == LongestMatch(a, b, alo, ahi, blo, bhi)
    IN IF x[3] = 0 THEN 0
       ELSE x[3] + MatchingCharacters(a, b, alo, x[1], blo, x[2])
                 + MatchingCharacters(a, b, x[1] + x[3], ahi, x[2] + x[3], bhi)

\* SequenceMatcher(None, a, b).ratio() = 2.0 * matches / (len(a) + len(b))
Ratio(a, b) ==
    IF Len(a) + Len(b) = 0 THEN <<1, 1>>
    ELSE <<2 * MatchingCharacters(a, b, 0, Len(a), 0, Len(b)), Len(a) + Len(b)>>

FracGE(a, b) == a[1] * b[2] >= b[1] * a[2]

\* threshold: float = 0.3
MatchThreshold == <<3, 10>>

\* the cascade on two lowered strings: exact, substring, shared word, ratio
CascadeScore(text1_lower, text2_lower) ==
    IF text1_lower = text2_lower THEN <<1, 1>>
    ELSE IF Contains(text2_lower, text1_lower) \/ Contains(text1_lower, text2_lower)
    THEN <<4, 5>>
    ELSE IF Words(text1_lower) \cap Words(text2_lower) # {} THEN <<3, 5>>
    ELSE Ratio(text1_lower, text2_lower)

\* AdvancedEfficientNetClassifier._enhanced_similarity_score
AdvancedSimilarityScore(text1, text2) == CascadeScore(LowerChars(text1), LowerChars(text2))

\* EfficientNet21kVocabAnalyzer._enhanced_similarity_score: score and type,
\* (0.0, "no_match") when the ratio is below 0.3
EnhancedSimilarityScore21k(prediction, vocab_term) ==
    LET pred_lower == Strip(LowerChars(prediction))
        vocab_lower == Strip(LowerChars(vocab_term))
    IN IF pred_lower = vocab_lower THEN <<<<1, 1>>, "exact">>
       ELSE IF Contains(pred_lower, vocab_lower) \/ Contains(vocab_lower, pred_lower)
       THEN <<<<4, 5>>, "partial">>
       ELSE IF Words(pred_lower) \cap Words(vocab_lower) # {} THEN <<<<3, 5>>, "word_match">>
       ELSE IF FracGE(Ratio(pred_lower, vocab_lower), MatchThreshold)
       THEN <<Ratio(pred_lower, vocab_lower), "similarity">>
       ELSE <<<<0, 1>>, "no_match">>

\* the score of the inline cascade of PythonEfficientNetClassifier
InlineScore(class_name, vocab_term) == CascadeScore(class_name, LowerChars(vocab_term))

\* the score the loop of a classifier computes for one vocabulary term
ScoreOf(variant, class_name, vocab_term) ==
    IF variant = "advanced" THEN AdvancedSimilarityScore(class_name, vocab_term)
    ELSE InlineScore(class_name, vocab_term)

\* 'exact' if best_score == 1.0 else 'partial' if best_score >= 0.8 else 'similarity'
MatchTypeOf(best_score) ==
    IF FracEq(best_score, <<1, 1>>) THEN "exact"
    ELSE IF FracGE(best_score, <<4, 5>>) THEN "partial"
    ELSE "similarity"

\* the loop over self.vocab_list: best_match and best_score after the terms
\* from position n on, given the best so far
RECURSIVE BestOverVocab(_, _, _, _, _)
BestOverVocab(variant, class_name, vocab_list, n, best) ==
    IF n > Len(vocab_list) THEN best
    ELSE LET score == ScoreOf(variant, class_name, vocab_list[n])
         IN BestOverVocab(variant, class_name, vocab_list, n + 1,
                IF FracGT(score, best.best_score) /\ FracGE(score, MatchThreshold)
                THEN [best_match |-> vocab_list[n], best_score |-> score]
                ELSE best)

NoBest == [best_match |-> None, best_score |-> <<0, 1>>]

\* the matches in prediction order: the best term of each prediction that
\* has one
RECURSIVE BestMatches(_, _, _, _)
BestMatches(variant, preds, vocab_list, n) ==
    IF n > Len(preds) THEN <<>>
    ELSE LET pred == preds[n]
             best == BestOverVocab(variant, LowerChars(pred.class_name), vocab_list, 1, NoBest)
             rest == BestMatches(variant, preds, vocab_list, n + 1)
         IN IF best.best_match # None /\ best.best_match # <<>>
            THEN <<[prediction |-> pred, vocab_term |-> best.best_match,
                    match_score |-> best.best_score,
                    match_type |-> MatchTypeOf(best.best_score)]>> \o rest
            ELSE rest

\* sorted(matches, key=lambda x: x['match_score'], reverse=True), which
\* keeps matches of equal score in their order
RECURSIVE SortByScore(_)
SortByScore(matches) ==
    IF matches = <<>> THEN <<>>
    ELSE LET x == matches[Len(matches)]
             sorted == SortByScore(SubSeq(matches, 1, Len(matches) - 1))
             before == {n \in 1..Len(sorted) : FracGE(sorted[n].match_score, x.match_score)}
         IN SubSeq(sorted, 1, Cardinality(before)) \o <<x>>
            \o SubSeq(sorted, Cardinality(before) + 1, Len(sorted))

\* EfficientNet21kVocabAnalyzer._find_vocab_matches, before the sort: a match
\* for every term whose score is above 0, prediction by prediction
RECURSIVE AllMatches21k(_, _, _, _)
AllMatches21k(preds, vocab_list, n, t) ==
    IF n > Len(preds) THEN <<>>
    ELSE IF t > Len(vocab_list) THEN AllMatches21k(preds, vocab_list, n + 1, 1)
    ELSE LET scored == EnhancedSimilarityScore21k(preds[n].class_name, vocab_list[t])
             rest == AllMatches21k(preds, vocab_list, n, t + 1)
         IN IF FracGT(scored[1], <<0, 1>>)
            THEN <<[prediction |-> preds[n], vocab_term |-> vocab_list[t],
                    match_score |-> scored[1], match_type |-> scored[2]]>> \o rest
            ELSE rest

\* The class names the classifier reports and the vocabulary terms.
ClassNames == {<<"C", "a", "t">>,
               <<"t", "a", "b", "b", "y", " ", "c", "a", "t">>,
               <<"c", "o", "t">>,
               <<"d", "o", "g">>}

VocabTerms == {<<"c", "a", "t">>,
               <<"w", "i", "l", "d", " ", "c", "a", "t">>,
               <<"c", "a", "r", "t">>}

Injective(seq) == \A m, n \in DOMAIN seq : seq[m] = seq[n] => m = n

\* top-k predictions: distinct classes, in rank order
StringPredictions ==
    {[n \in DOMAIN names |-> [class_name |-> names[n], rank |-> n]] :
        names \in {ns \in UNION {[1..k -> ClassNames] : k \in 1..MaxPreds} : Injective(ns)}}

\* self.vocab_list: distinct terms, in file order
StringVocabLists ==
    {vl \in UNION {[1..k -> VocabTerms] : k \in 1..MaxVocab} : Injective(vl)}

MatchInputs ==
    {[vocab_list |-> vl, predictions |-> ps] : vl \in StringVocabLists, ps \in StringPredictions}

\* AdvancedEfficientNetClassifier._find_vocab_matches(predictions)
FindVocabMatchesAdvanced ==
    /\ fn = "none"
    /\ arg \in MatchInputs
    /\ fn' = "advanced._find_vocab_matches"
    /\ out' = SortByScore(BestMatches("advanced", arg.predictions, arg.vocab_list, 1))
    /\ UNCHANGED <<arg, program_vars>>

\* PythonEfficientNetClassifier._find_vocab_matches(predictions): returns
\* the matches as collected
FindVocabMatchesPython ==
    /\ fn = "none"
    /\ arg \in MatchInputs
    /\ fn' = "python._find_vocab_matches"
    /\ out' = BestMatches("python", arg.predictions, arg.vocab_list, 1)
    /\ UNCHANGED <<arg, program_vars>>

\* EfficientNet21kVocabAnalyzer._find_vocab_matches(predictions)['all_matches']
FindVocabMatches21k ==
    /\ fn = "none"
    /\ arg \in MatchInputs
    /\ fn' = "21k._find_vocab_matches"
    /\ out' = SortByScore(AllMatches21k(arg.predictions, arg.vocab_list, 1, 1))
    /\ UNCHANGED <<arg, program_vars>>

PureInputs ==
    SelectionInputs \cup SimpleSelectionInputs \cup SampleInputs \cup ImageSizes
    \cup MatchInputs

\* the state in which one stand-alone function is about to be called on one
\* of its inputs
InitPure ==
    /\ InitProgram({<<"none", "pure">>})
    /\ fn = "none"
    /\ arg \in PureInputs
    /\ out = <<>>

NextPure ==
    \/ CreateFixedGridSelection
    \/ CreateSimpleGridSelection
    \/ ShowVocabularySample
    \/ ExtractGridCells
    \/ FindVocabMatchesAdvanced
    \/ FindVocabMatchesPython
    \/ FindVocabMatches21k

\* the stand-alone functions, each called once on each of its inputs
SpecPure == InitPure /\ [][NextPure]_vars

(***************************************************************************)
(* The run loops' rebuild schedule                                         *)
(***************************************************************************)
\* the classifier outputs of a run, one per analysed cell, for the analyzer p:
\* class 1 alone passes discovery, above or below the confidence that
\* validation asks for
ScheduleLists(p) ==
    IF p = "balanced"
    THEN {MkPredictions(<<<<1, 26>>>>, <<2>>), MkPredictions(<<<<1, 21>>>>, <<2>>)}
    ELSE {MkPredictions(<<<<1, 51>>>>, <<2>>), MkPredictions(<<<<1, 45>>>>, <<2>>)}

ScheduleSteps(p) ==
    [preds : ScheduleLists(p), expected_vocab : {"acorn", "Blender"}]

\* a fixed sequence of cells and the number of cells between two rebuilds
\* (0: no rebuild inside the loop)
ScheduleInputs(p) ==
    [steps : UNION {[1..n -> ScheduleSteps(p)] : n \in 1..MaxObs},
     every : 0..(MaxObs - 1)]

\* the loop's test for an intermediate rebuild, i % 4 == 0 or
\* processed_count % 20 == 0, for the period every
RebuildDue(n, every) == every > 0 /\ n % every = 0

\* the loop of a run from its n-th cell on: discovery on the cell, a rebuild
\* when one is due, and the final rebuild after the last cell
RECURSIVE RunLoop(_, _, _, _, _)
RunLoop(p, steps, every, n, st) ==
    IF n > Len(steps)
    THEN LET r == BuildClassMapping(p, st)
         IN AnalyzerState(r.cm, r.dc, r.vs)
    ELSE LET d == DiscoverOf(p, steps[n].preds, steps[n].expected_vocab, st)
             r == BuildClassMapping(p, d)
         IN RunLoop(p, steps, every, n + 1,
                    IF RebuildDue(n, every) THEN AnalyzerState(r.cm, r.dc, r.vs) ELSE d)

\* run_balanced_test / run_full_analysis / analyze_image_hybrid per cell, as
\* far as the Evidence Ledger and the mapping table go
RunWithSchedule ==
    LET st == RunLoop(policy, arg.steps, arg.every, 1,
                      AnalyzerState(class_mapping, discovered_classes, validation_stats))
    IN /\ fn = "none"
       /\ arg \in ScheduleInputs(policy)
       /\ fn' = "run_with_schedule"
       /\ out' = [class_mapping |-> st.cm]
       /\ class_mapping' = st.cm
       /\ discovered_classes' = st.dc
       /\ validation_stats' = st.vs
       /\ op' = "rebuild"
       /\ UNCHANGED <<arg, policy, corpus, new_mappings, rejected_classes,
                      predictions, vocab_matches>>
       /\ UNCHANGED image_vars
       /\ UNCHANGED run_vars

InitSchedule ==
    /\ InitProgram({"balanced", "hybrid", "fixed_hybrid"} \X {"schedule"})
    /\ fn = "none"
    /\ arg \in ScheduleInputs(policy)
    /\ out = <<>>

\* one run of the balanced, hybrid or fixed hybrid analyzer on a fixed
\* sequence of cells under one rebuild schedule
SpecSchedule == InitSchedule /\ [][RunWithSchedule]_vars

\* the batch runs of the hybrid and balanced analyzers
SpecRun == InitOf({"hybrid", "balanced"} \X {"run"}) /\ [][NextRun]_vars

SpecRunHybrid == InitOf({<<"hybrid", "run">>}) /\ [][NextRun]_vars

\* the hybrid run from image 004 and from image 003
SpecRunIndex ==
    InitOf({<<"hybrid", "run">>, <<"hybrid", "run_from_3">>}) /\ [][NextRun]_vars

\* the run of the location-aware analyzer
SpecLocation == InitOf({<<"location_aware", "run">>}) /\ [][NextLocation]_vars

PredictionListsWellFormed ==
    \A preds \in PredictionLists(policy, corpus) : WellFormedPredictions(preds)

(***************************************************************************)
(* Properties                                                              *)
(***************************************************************************)

\* C1: under the strict, balanced, smart, hybrid and fixed hybrid analyzers,
\* whatever discover, rebuild or match call comes next, every class that has
\* a mapping keeps it, and keeps the same term.
C1_MappingNeverRemovedOrReassigned ==
    [][\A c \in DOMAIN class_mapping :
          /\ c \in DOMAIN class_mapping'
          /\ class_mapping'[c] = class_mapping[c]]_vars

\* a rebuild has run over a table that already held a mapping made earlier,
\* and added a second one next to it
C1_Witness ==
    /\ IsRebuild(op)
    /\ \E c \in DOMAIN class_mapping : c \notin DOMAIN new_mappings
    /\ \E c \in DOMAIN class_mapping : c \in DOMAIN new_mappings

\* C2: a rebuild that directly follows a rebuild returns no new mappings.
C2_SecondRebuildReturnsNothing ==
    op = "rebuild_again" => new_mappings = EmptyDict

\* C3: in the fixed hybrid analyzer's grid loop, a class that had no
\* observation before a cell and whose one observation, made in that cell,
\* has confidence above 50 is mapped to the image's expected term (lower-cased,
\* as every mapping is) and appears with that term in the cell's match list.
C3_SingleEvidenceMatchedInSameCell ==
    [][op' = "cell" =>
         \A c \in ClassIds :
            ( /\ discovered_classes[c] = <<>>
              /\ Len(discovered_classes'[c]) = 1
              /\ discovered_classes'[c][1].confidence > 50 )
            => /\ c \in DOMAIN class_mapping'
               /\ class_mapping'[c] = Lower(image_expected_vocab')
               /\ \E k \in 1..Len(vocab_matches') :
                     /\ vocab_matches'[k].class_idx = c
                     /\ vocab_matches'[k].vocab_term = Lower(image_expected_vocab')]_vars

\* the very first cell of a run recorded a class at 51% and matched it on its
\* single observation
C3_Witness ==
    /\ op = "cell"
    /\ total_cells_analyzed = 1
    /\ \E k \in 1..Len(vocab_matches) :
          LET c == vocab_matches[k].class_idx
          IN /\ Len(discovered_classes[c]) = 1
             /\ discovered_classes[c][1].confidence > 50
             /\ vocab_matches[k].mapping_type = "single_high_confidence"
             /\ vocab_matches[k].vocab_term = Lower(image_expected_vocab)

\* C4: in the hybrid and fixed hybrid analyzers, a discovery call that meets,
\* among its top three predictions, an unmapped class with confidence above 70
\* maps that class to the expected term at once, with quality_score equal to
\* the prediction's confidence, and records no observation for it.
C4_ImmediateMappingAbove70 ==
    [][\A preds \in HybridLists, expected_vocab \in ExpectedTerms \ {None} :
          \A i \in 1..3 :
             LET c == preds[i].class_idx
                 confidence == preds[i].confidence_percent
             IN ( /\ confidence > 70
                  /\ c \notin DOMAIN class_mapping
                  /\ \/ Discover(preds, expected_vocab)
                     \/ AnalyzeCell(preds, expected_vocab) )
                => /\ c \in DOMAIN class_mapping'
                   /\ class_mapping'[c] = Lower(expected_vocab)
                   /\ FracEq(validation_stats'[c].quality_score, <<confidence, 1>>)
                   /\ discovered_classes'[c] = discovered_classes[c]]_vars

\* a discovery has just mapped a class on a single 71% prediction, with no
\* observation in the ledger
C4_Witness ==
    /\ op = "discover"
    /\ policy = "hybrid"
    /\ \E c \in DOMAIN class_mapping :
          /\ discovered_classes[c] = <<>>
          /\ validation_stats[c].mapping_type = "immediate_high_confidence"
          /\ validation_stats[c].evidence_count = 1
          /\ FracEq(validation_stats[c].quality_score, <<71, 1>>)

C7_AcceptIffRuleWithAlternative ==
    [][IsRebuild(op') =>
         \A c \in ClassIds :
            LET ds == discovered_classes[c]
                n == Len(ds)
                sum == SumConfidence(ds)
                occ == IF n = 0 THEN 0
                       ELSE OccurrencesOf(ds, MostCommonVocab(ds))
                rank1 == Cardinality({k \in 1..n : ds[k].rank = 1})
                hi == Cardinality({k \in 1..n : ds[k].confidence > 30})
                C_avg == IF policy = "strict" THEN 40 ELSE 25
                rule == /\ n > 0
                        /\ sum > C_avg * n
                        /\ IF policy = "strict" THEN 5 * occ > 3 * n ELSE 2 * occ > n
                        /\ occ >= 2
                        /\ \/ IF policy = "strict" THEN 10 * rank1 > 3 * n ELSE 5 * rank1 > n
                           \/ 10 * hi > 3 * n
            IN (c \in DOMAIN new_mappings') <=> rule]_vars

\* C7, per analyzer: a rebuild of the balanced analyzer returns a class among its
\* new mappings exactly when avg_confidence > 25, consistency_ratio > 0.5, the
\* majority term occurs at least twice and (rank1_ratio > 0.2 or the share of
\* observations above 30% exceeds 0.3); a rebuild of the strict analyzer does
\* exactly when avg_confidence > 40, consistency_ratio > 0.6, the majority term
\* occurs at least twice and rank1_ratio > 0.3, with no high-confidence
\* alternative.
C7_AcceptIffRule ==
    [][IsRebuild(op') =>
         \A c \in ClassIds :
            LET ds == discovered_classes[c]
                n == Len(ds)
                sum == SumConfidence(ds)
                occ == IF n = 0 THEN 0
                       ELSE OccurrencesOf(ds, MostCommonVocab(ds))
                rank1 == Cardinality({k \in 1..n : ds[k].rank = 1})
                hi == Cardinality({k \in 1..n : ds[k].confidence > 30})
                rule == IF policy = "strict"
                        THEN /\ n > 0
                             /\ sum > 40 * n
                             /\ 5 * occ > 3 * n
                             /\ occ >= 2
                             /\ 10 * rank1 > 3 * n
                        ELSE /\ n > 0
                             /\ sum > 25 * n
                             /\ 2 * occ > n
                             /\ occ >= 2
                             /\ \/ 5 * rank1 > n
                                \/ 10 * hi > 3 * n
            IN (c \in DOMAIN new_mappings') <=> rule]_vars

\* a balanced rebuild has accepted a class on its high-confidence share alone
\* (no observation of it at rank 1)
C7_Witness ==
    /\ op = "rebuild"
    /\ policy = "balanced"
    /\ \E c \in DOMAIN new_mappings :
          /\ \A k \in 1..Len(discovered_classes[c]) : discovered_classes[c][k].rank # 1
          /\ \E k \in 1..Len(discovered_classes[c]) : discovered_classes[c][k].confidence > 30

\* C8: in the balanced and hybrid analyzers, a class that a rebuild has
\* rejected keeps every observation it had (later calls only append to them),
\* and any later rebuild that finds the acceptance rule satisfied over all of
\* the class's observations, the earlier ones included, maps the class to its
\* majority term.
C8_RejectedEvidenceStaysPending ==
    [][\A c \in rejected_classes :
          LET ds == discovered_classes[c]
              n == Len(ds)
              sum == SumConfidence(ds)
              occ == OccurrencesOf(ds, MostCommonVocab(ds))
              rank1 == Cardinality({k \in 1..n : ds[k].rank = 1})
              hi == Cardinality({k \in 1..n : ds[k].confidence > 30})
              rule == IF policy = "balanced"
                      THEN /\ sum > 25 * n
                           /\ 2 * occ > n
                           /\ occ >= 2
                           /\ (5 * rank1 > n \/ 10 * hi > 3 * n)
                      ELSE \/ n = 1 /\ sum > 50
                           \/ /\ n >= 2
                              /\ sum > 35 * n
                              /\ 5 * occ > 3 * n
                              /\ occ >= 2
          IN /\ Len(discovered_classes'[c]) >= n
             /\ SubSeq(discovered_classes'[c], 1, n) = ds
             /\ (IsRebuild(op') /\ c \notin DOMAIN class_mapping /\ rule)
                => /\ c \in DOMAIN new_mappings'
                   /\ class_mapping'[c] = Lower(MostCommonVocab(ds))]_vars

\* a rebuild has just accepted a class that an earlier rebuild had rejected
C8_Witness ==
    /\ op = "rebuild"
    /\ \E c \in rejected_classes : c \in DOMAIN new_mappings

\* C9: after a match call of the balanced or hybrid analyzer, the returned
\* list holds exactly one entry for each of the first top_n predictions whose
\* class is mapped (carrying the mapped term, the prediction's confidence and
\* the quality score stored for the class, 0 when none is stored), nothing
\* for unmapped classes or for predictions past top_n, and it is ordered by
\* confidence descending, then quality score descending.
C9_MatchEmitsMappedTopNSorted ==
    op = "match" =>
        LET top_n == IF policy = "balanced" THEN 15 ELSE 10
            n == IF Len(predictions) < top_n THEN Len(predictions) ELSE top_n
            hits == {i \in 1..n : predictions[i].class_idx \in DOMAIN class_mapping}
            m == Len(vocab_matches)
        IN /\ m = Cardinality(hits)
           /\ \A i \in hits :
                 LET c == predictions[i].class_idx
                     at == {k \in 1..m : vocab_matches[k].rank = i}
                 IN /\ Cardinality(at) = 1
                    /\ \A k \in at :
                          /\ vocab_matches[k].class_idx = c
                          /\ vocab_matches[k].vocab_term = class_mapping[c]
                          /\ vocab_matches[k].similarity = predictions[i].confidence_percent
                          /\ vocab_matches[k].quality_score =
                                 IF c \in DOMAIN validation_stats
                                 THEN validation_stats[c].quality_score
                                 ELSE <<0, 1>>
           /\ \A k \in 1..m : vocab_matches[k].rank \in hits
           /\ \A k \in 1..(m - 1) :
                 LET a == vocab_matches[k]
                     b == vocab_matches[k + 1]
                 IN \/ a.similarity > b.similarity
                    \/ /\ a.similarity = b.similarity
                       /\ a.quality_score[1] * b.quality_score[2]
                             >= b.quality_score[1] * a.quality_score[2]

\* a match whose sort moved a later prediction ahead of an earlier one of the
\* same confidence
C9_Witness ==
    /\ op = "match"
    /\ Len(vocab_matches) >= 2
    /\ vocab_matches[1].rank > vocab_matches[2].rank
    /\ vocab_matches[1].similarity = vocab_matches[2].similarity

\* C10: a match call of the balanced analyzer changes neither the mapping
\* table, nor the evidence ledger, nor the validation statistics, and a match
\* call that follows a match call on the same predictions (hence with the
\* same mapping table) returns the same ordered list.
C10_MatchIsPure ==
    [][op' = "match" =>
          /\ class_mapping' = class_mapping
          /\ discovered_classes' = discovered_classes
          /\ validation_stats' = validation_stats
          /\ (op = "match" /\ predictions' = predictions)
                => vocab_matches' = vocab_matches]_vars

\* a match call returned matches while evidence was pending in the ledger
\* and statistics were stored
C10_Witness ==
    /\ policy = "balanced"
    /\ op = "match"
    /\ vocab_matches # <<>>
    /\ DOMAIN validation_stats # {}
    /\ \E k \in 1..Len(vocab_matches) :
          discovered_classes[vocab_matches[k].class_idx] # <<>>

\* C11: after a match call of the smart analyzer, no returned match comes
\* from a prediction below 35% whose class is mapped to a problematic term
\* (blender, bamboo, artichoke, cork, fork), while a prediction of such a
\* class at 35% or more, within the first 15, is matched.
C11_ProblematicTermBelowFloorUnmatched ==
    (policy = "smart" /\ op = "match") =>
        \A i \in 1..Len(predictions) :
           LET c == predictions[i].class_idx
               hit == \E k \in 1..Len(vocab_matches) : vocab_matches[k].class_idx = c
           IN ( /\ c \in DOMAIN class_mapping
                /\ class_mapping[c] \in {"blender", "bamboo", "artichoke", "cork", "fork"} )
              => /\ predictions[i].confidence_percent < 35 => ~hit
                 /\ (predictions[i].confidence_percent >= 35 /\ i <= 15) => hit

\* a match call met a class mapped to a problematic term at 34% and
\* returned nothing
C11_Witness ==
    /\ policy = "smart"
    /\ op = "match"
    /\ vocab_matches = <<>>
    /\ \E i \in 1..Len(predictions) :
          /\ predictions[i].class_idx \in DOMAIN class_mapping
          /\ class_mapping[predictions[i].class_idx] \in problematic_terms
          /\ predictions[i].confidence_percent = 34

\* C12: in a run of the hybrid analyzer from image 004, where every
\* vocabulary term is the expected term of exactly one image, no term is
\* matched (in some cell) in more than 2 of the images analysed so far.
C12_NoTermMatchedInMoreThanTwoImages ==
    (policy = "hybrid" /\ corpus = "run") =>
        \A t \in MappedTerms :
           Cardinality({k \in 1..Len(results) :
                          results[k].success /\ t \in results[k].grid_results}) <= 2

\* C13: in the location-aware analyzer's run, every mapping stored under an
\* image names that image's expected term (so a class has one term per
\* image), every match returned for a cell comes from a class mapped under
\* the image being analysed and names that image's expected term, and every
\* term recorded as matched in an image's result is that image's expected
\* term (lower-cased, as mappings are stored) and is matched in no other image.
C13_MappingsKeyedByImage ==
    policy = "location_aware" =>
        /\ \A sid \in DOMAIN image_specific_mappings :
              \A c \in DOMAIN image_specific_mappings[sid] :
                 /\ ExpectedVocabAt(sid) # None
                 /\ image_specific_mappings[sid][c] = Lower(ExpectedVocabAt(sid))
        /\ \A k \in 1..Len(vocab_matches) :
              LET sid == IF op = "image_done" THEN image_no - 1 ELSE image_no
              IN /\ sid \in DOMAIN image_specific_mappings
                 /\ vocab_matches[k].class_idx \in DOMAIN image_specific_mappings[sid]
                 /\ vocab_matches[k].vocab_term = Lower(ExpectedVocabAt(sid))
        /\ \A k \in 1..Len(results) :
              results[k].success =>
                 \A t \in results[k].grid_results :
                    /\ t = Lower(results[k].expected_vocab)
                    /\ \A j \in 1..Len(results) :
                          (results[j].success /\ t \in results[j].grid_results) => j = k

\* one class is mapped to different terms under two images, and the cell
\* just analysed in the later image matched that image's term
C13_Witness ==
    /\ policy = "location_aware"
    /\ vocab_matches # <<>>
    /\ \E s1 \in DOMAIN image_specific_mappings, s2 \in DOMAIN image_specific_mappings :
          /\ s1 < s2
          /\ \E c \in DOMAIN image_specific_mappings[s1] \cap DOMAIN image_specific_mappings[s2] :
                /\ image_specific_mappings[s1][c] # image_specific_mappings[s2][c]
                /\ vocab_matches[1].class_idx = c
                /\ vocab_matches[1].vocab_term = image_specific_mappings[s2][c]

\* C14: in the runs of the hybrid and balanced analyzers, while an image is
\* analysed and when its record is appended as a success, the correctness
\* flag is true exactly when some analysed cell's match list holds the
\* image's expected term (compared in lower case; never when the image has
\* no expected term), and the detection flag is true exactly when some
\* analysed cell's match list is not empty.
C14_FlagsFollowCellMatches ==
    [][op' \in {"run_cell", "image_done"} =>
          LET done == op' = "image_done"
              rec == results'[Len(results')]
              last == [k \in 1..Len(vocab_matches') |-> vocab_matches'[k].vocab_term]
              cells == [n \in 1..Len(grid_results) |-> grid_results[n].vocab_matches]
                          \o <<last>>
              expected == image_expected_vocab'
              some_match == \E n \in 1..Len(cells) : cells[n] # <<>>
              some_correct ==
                  /\ expected # None
                  /\ \E n \in 1..Len(cells) : \E j \in 1..Len(cells[n]) :
                        Lower(cells[n][j]) = Lower(expected)
          IN IF done
             THEN rec.success =>
                     /\ Len(cells) = GridCells
                     /\ rec.expected_vocab = expected
                     /\ rec.has_any_detection = some_match
                     /\ rec.has_correct_detection = some_correct
             ELSE /\ image_has_any_detection' = some_match
                  /\ image_has_correct_detection' = some_correct]_vars

\* one run has recorded an image with no detection, an image with a correct
\* detection and an image with detections none of which is correct
C14_Witness ==
    /\ policy \in {"hybrid", "balanced"}
    /\ \E a \in 1..Len(results), b \in 1..Len(results), c \in 1..Len(results) :
          /\ results[a].success /\ ~results[a].has_any_detection
          /\ results[b].success /\ results[b].has_correct_detection
          /\ results[c].success /\ results[c].has_any_detection
          /\ ~results[c].has_correct_detection

\* C15: in the hybrid run, a failed fetch leaves a record with success false
\* and an error reason for that image and the loop goes on to the next
\* image; the run never ends by raising, and when it has returned there is
\* one record for every image from start_id to end_id.
C15_FetchFailureNeverAbortsRun ==
    /\ op = "fetch_failed" =>
          /\ results[Len(results)] = FailedResult(image_no - 1, "fetch")
          /\ run_outcome = "running"
    /\ run_outcome # "raised"
    /\ run_outcome = "returned" =>
          /\ Len(results) = MaxImages
          /\ \A k \in 1..Len(results) : results[k].screenshot_id = StartId(corpus) + k - 1

\* C16: in the runs of the hybrid and balanced analyzers, a cell-loop turn
\* in which the classifier raises appends a failed record (success false,
\* with an error reason) for the image and moves on to the next image.
C16_ClassifierExceptionFailsImage ==
    [][\A preds \in PredictionLists(policy, corpus) :
          (op' \in {"run_cell", "image_done"} /\ RunCell(preds, TRUE)) =>
             /\ op' = "image_done"
             /\ image_no' = image_no + 1
             /\ results' = Append(results, FailedResult(image_no, "classifier"))]_vars

\* C17: in the hybrid run, an image whose vocabulary index (image number
\* minus 4) is negative or not less than the vocabulary length is never
\* analysed: no cell of it is analysed and no success record is appended for
\* it.
C17_OutOfRangeImageNeverAnalysed ==
    LET InRange(i) == 0 <= i - 4 /\ i - 4 < Len(vocab_terms)
    IN /\ position > 0 => InRange(image_no)
       /\ \A k \in 1..Len(results) :
             results[k].success => InRange(results[k].screenshot_id)

\* C18: for every image number N with 4 <= N < 4 + len(vocabulary), the
\* expected term computed for image N is vocab_list[N - 4] (image "004" gets
\* index 0), the image shown for index i is number i + 4 with term
\* vocab_list[i], and N -> N - 4 and i -> i + 4 undo each other.
C18_Image004IsIndex0 ==
    /\ fn = "create_fixed_grid_selection" =>
          LET d == arg.screenshot_id
              N == 100 * d[1] + 10 * d[2] + d[3]
          IN (Len(d) = 3 /\ 4 <= N /\ N < 4 + Len(arg.vocab_list)) =>
                /\ out.vocab_index = N - 4
                /\ out.expected_vocab = arg.vocab_list[(N - 4) + 1]
                /\ ScreenshotNumOf(out.vocab_index) = N
    /\ fn = "show_vocabulary_sample" =>
          LET d == out.screenshot_id
              N == 100 * d[1] + 10 * d[2] + d[3]
          IN /\ Len(d) = 3
             /\ N = arg.i + 4
             /\ VocabIndexOf(N) = arg.i
             /\ out.expected_vocab = arg.vocab_list[arg.i + 1]

\* image "004" of a vocabulary with distinct first terms got the first term
C18_Witness ==
    /\ fn = "create_fixed_grid_selection"
    /\ arg.screenshot_id = <<0, 0, 4>>
    /\ Len(arg.vocab_list) >= 2
    /\ arg.vocab_list[1] # arg.vocab_list[2]
    /\ out.vocab_index = 0
    /\ out.expected_vocab = arg.vocab_list[1]

\* C19: the four crop boxes of an image of width W and height H are
\* (0,0,W//2,H//2), (W//2,0,W,H//2), (0,H//2,W//2,H) and (W//2,H//2,W,H);
\* every pixel of [0,W) x [0,H) lies in exactly one of them, none reaches
\* outside the image, and the right and bottom cells take the odd pixel.
C19_QuadrantsTileImage ==
    fn = "extract_grid_cells" =>
        LET W == arg.width
            H == arg.height
            Holds(box, x, y) == box[1] <= x /\ x < box[3] /\ box[2] <= y /\ y < box[4]
        IN /\ out = <<<<0, 0, W \div 2, H \div 2>>, <<W \div 2, 0, W, H \div 2>>,
                      <<0, H \div 2, W \div 2, H>>, <<W \div 2, H \div 2, W, H>>>>
           /\ \A x \in 0..(W - 1), y \in 0..(H - 1) :
                 Cardinality({n \in 1..4 : Holds(out[n], x, y)}) = 1
           /\ \A n \in 1..4 :
                 /\ 0 <= out[n][1] /\ out[n][1] <= out[n][3] /\ out[n][3] <= W
                 /\ 0 <= out[n][2] /\ out[n][2] <= out[n][4] /\ out[n][4] <= H
           /\ (out[2][3] - out[2][1]) - (out[1][3] - out[1][1]) = W % 2
           /\ (out[3][4] - out[3][2]) - (out[1][4] - out[1][2]) = H % 2

\* an image with an odd width and an odd height was cut
C19_Witness ==
    /\ fn = "extract_grid_cells"
    /\ arg.width % 2 = 1
    /\ arg.height % 2 = 1
    /\ arg.width >= 3
    /\ out[4] = <<arg.width \div 2, arg.height \div 2, arg.width, arg.height>>

\* C20: whichever of the three string matchers is called, it returns at most
\* one match per prediction, the term of a match scores at least as high
\* against the prediction's class name as every other vocabulary term, and
\* the matches are in descending order of score.
C20_BestTermPerPredictionSortedByScore ==
    fn \in {"advanced._find_vocab_matches", "python._find_vocab_matches",
            "21k._find_vocab_matches"} =>
        /\ \A m, n \in DOMAIN out : out[m].prediction = out[n].prediction => m = n
        /\ \A n \in DOMAIN out : \A t \in DOMAIN arg.vocab_list :
              FracGE(out[n].match_score,
                     AdvancedSimilarityScore(out[n].prediction.class_name, arg.vocab_list[t]))
        /\ \A n \in 1..(Len(out) - 1) : FracGE(out[n].match_score, out[n + 1].match_score)

C22_QualityScoreIsUniformProduct ==
    [][IsRebuild(op') =>
         \A c \in DOMAIN new_mappings' :
            LET d == discovered_classes[c]
                n == Len(d)
                total == SumConfidence(d)
                occurrence == OccurrencesOf(d, validation_stats'[c].vocab_term)
                rank1 == Cardinality({k \in 1..n : d[k].rank = 1})
                high == Cardinality({k \in 1..n : d[k].confidence > HighMark(policy)})
            IN FracEq(validation_stats'[c].quality_score,
                      <<total * occurrence * (rank1 + high), n * n * n>>)]_vars

\* C22, per analyzer: every entry a rebuild writes has quality_score =
\* avg_confidence x consistency_ratio x F over all the class's observations,
\* where F = rank1_ratio + high_confidence_ratio in the balanced and smart
\* analyzers, F = rank1_ratio in the strict analyzer and
\* F = 1 + high_confidence_ratio in the hybrid analyzer.
C22_QualityScorePerAnalyzer ==
    [][IsRebuild(op') =>
         \A c \in DOMAIN new_mappings' :
            LET d == discovered_classes[c]
                n == Len(d)
                total == SumConfidence(d)
                occurrence == OccurrencesOf(d, validation_stats'[c].vocab_term)
                rank1 == Cardinality({k \in 1..n : d[k].rank = 1})
                high == Cardinality({k \in 1..n : d[k].confidence > HighMark(policy)})
                F == CASE policy \in {"balanced", "smart"} -> rank1 + high
                       [] policy = "strict" -> rank1
                       [] OTHER -> n + high
            IN /\ n > 0
               /\ \A t \in {d[k].expected_vocab : k \in 1..n} : OccurrencesOf(d, t) <= occurrence
               /\ FracEq(validation_stats'[c].quality_score,
                         <<total * occurrence * F, n * n * n>>)]_vars

\* a rebuild of the hybrid analyzer accepted a class on two observations of
\* which one is not at rank 1
C22_Witness ==
    /\ IsRebuild(op)
    /\ policy = "hybrid"
    /\ \E c \in DOMAIN new_mappings :
          /\ Len(discovered_classes[c]) >= 2
          /\ \E k \in 1..Len(discovered_classes[c]) : discovered_classes[c][k].rank # 1
          /\ validation_stats[c].mapping_type = "multiple_evidence_validated"

\* C23 as stated: for a fixed sequence of cells and classifier outputs, the
\* mapping table after the final rebuild is the one the run gets with no
\* rebuild inside the loop, whatever the period of the intermediate rebuilds.
C23_FinalTableIndependentOfSchedule ==
    fn = "run_with_schedule" =>
        out.class_mapping
          = RunLoop(policy, arg.steps, 0, 1,
                    AnalyzerState(EmptyDict, [c \in ClassIds |-> <<>>], EmptyDict)).cm

\* C24 as stated: in the hybrid analyzer every unmapped class that holds an
\* observation with confidence above 50 when a rebuild starts is mapped by that
\* rebuild to the observation's expected term.
C24_OneHighObservationSuffices ==
    [][(policy = "hybrid" /\ IsRebuild(op')) =>
         \A c \in ClassIds \ DOMAIN class_mapping :
            \A k \in 1..Len(discovered_classes[c]) :
               discovered_classes[c][k].confidence > 50 =>
                  /\ c \in DOMAIN class_mapping'
                  /\ class_mapping'[c] = Lower(discovered_classes[c][k].expected_vocab)]_vars

\* C24, with the condition the rebuild tests: in the hybrid analyzer every
\* unmapped class whose only observation when a rebuild starts has confidence
\* above 50 is mapped by that rebuild to the lower-cased expected term of that
\* observation.
C24_LoneHighObservationMapped ==
    [][(policy = "hybrid" /\ IsRebuild(op')) =>
         \A c \in ClassIds \ DOMAIN class_mapping :
            (Len(discovered_classes[c]) = 1 /\ discovered_classes[c][1].confidence > 50) =>
               /\ c \in DOMAIN class_mapping'
               /\ class_mapping'[c] = Lower(discovered_classes[c][1].expected_vocab)]_vars

\* a hybrid rebuild has mapped a class on its single observation above 50%
C24_Witness ==
    /\ policy = "hybrid"
    /\ IsRebuild(op)
    /\ \E c \in DOMAIN new_mappings :
          /\ Len(discovered_classes[c]) = 1
          /\ discovered_classes[c][1].confidence > 50
          /\ validation_stats[c].mapping_type = "single_high_confidence"
          /\ class_mapping[c] = Lower(discovered_classes[c][1].expected_vocab)

\* C25: no step appends an observation for a class that has a mapping: the
\* observation list of every mapped class is after the step what it was before.
C25_MappedClassLedgerFrozen ==
    [][\A c \in DOMAIN class_mapping :
          discovered_classes'[c] = discovered_classes[c]]_vars

\* a discovery has just run, and a list whose top class is mapped, has
\* evidence in the ledger and is far above every discovery threshold leaves
\* the ledger as it is
C25_Witness ==
    /\ op = "discover"
    /\ \E preds \in PredictionLists(policy, corpus) :
          LET c == preds[1].class_idx
          IN /\ c \in DOMAIN class_mapping
             /\ discovered_classes[c] # <<>>
             /\ preds[1].confidence_percent >= 50
             /\ DiscoverOf(policy, preds, "acorn",
                           AnalyzerState(class_mapping, discovered_classes,
                                         validation_stats)).dc = discovered_classes

\* C26 as stated, for the location-aware run, where the mappings of image i
\* are written by the analysis of image i alone: an image recorded with
\* success false has left no mapping behind, its entry in
\* image_specific_mappings is as empty as before the image.
C26_FailedImageLeavesNoTrace ==
    \A k \in 1..Len(results) :
       ~results[k].success =>
          ImageMappingsOf(image_specific_mappings, results[k].screenshot_id) = EmptyDict

\* C27 as stated, for the balanced and smart analyzers: every observation in
\* the ledger was admitted under a discovery confidence threshold strictly
\* lower than the average confidence that validation asks of its term.
C27_DiscoveryBelowValidation ==
    \A c \in ClassIds :
       \A k \in 1..Len(discovered_classes[c]) :
          LET t == discovered_classes[c][k].expected_vocab
          IN DiscoveryThresholds(policy, t)[1] < AvgConfidenceThreshold(policy, t)

\* the <<class_idx, rank>> pairs a discovery with thresholds th records from
\* preds for expected_vocab on the analyzer's present state
RecordedPairs(th, preds, expected_vocab) ==
    LET st == AnalyzerState(class_mapping, discovered_classes, validation_stats)
        after == DiscoverLoopGap(1, preds, th[1], th[2], th[3], "smart", expected_vocab, st).dc
    IN {<<c, after[c][Len(after[c])].rank>> :
           c \in {x \in ClassIds : Len(after[x]) > Len(st.dc[x])}}

\* C28: whenever the smart discovery runs for the problematic term "Blender",
\* every (class_id, rank) it records would also have been recorded from the
\* same list and mapping table for the ordinary term "acorn"; the same holds
\* with the thresholds of VisualSmartAnalyzer.
C28_ProblematicDiscoveryIsStricter ==
    [][\A preds \in PredictionLists(policy, corpus) :
          (policy = "smart" /\ Discover(preds, "Blender")) =>
             /\ RecordedPairs(SmartThresholds(TRUE), preds, "Blender")
                   \subseteq RecordedPairs(SmartThresholds(FALSE), preds, "acorn")
             /\ RecordedPairs(VisualSmartThresholds(TRUE), preds, "Blender")
                   \subseteq RecordedPairs(VisualSmartThresholds(FALSE), preds, "acorn")]_vars

\* the smart discovery has recorded a class for the problematic term
\* "Blender", and the ledger also holds a class at a rank or confidence that
\* only an ordinary term is recorded at
C28_Witness ==
    /\ policy = "smart"
    /\ op = "discover"
    /\ \E c \in ClassIds :
          /\ discovered_classes[c] # <<>>
          /\ discovered_classes[c][Len(discovered_classes[c])].is_problematic
    /\ \E c \in ClassIds : \E k \in 1..Len(discovered_classes[c]) :
          /\ ~discovered_classes[c][k].is_problematic
          /\ \/ discovered_classes[c][k].confidence <= 40
             \/ discovered_classes[c][k].rank > 2

\* C29: whenever a rebuild accepts a class that has two or more observations,
\* the term it stores occurs in more than half of the class's observations and
\* strictly more often than every other term, and the mapping is that term
\* lower-cased.
C29_AcceptedTermHasStrictMajority ==
    [][IsRebuild(op') =>
         \A c \in DOMAIN new_mappings' :
            LET d == discovered_classes[c]
                t == validation_stats'[c].vocab_term
            IN Len(d) >= 2 =>
                 /\ 2 * OccurrencesOf(d, t) > Len(d)
                 /\ \A k \in 1..Len(d) :
                       d[k].expected_vocab # t =>
                          OccurrencesOf(d, d[k].expected_vocab) < OccurrencesOf(d, t)
                 /\ new_mappings'[c] = Lower(t)]_vars

\* a rebuild has accepted a class whose observations name two terms
C29_Witness ==
    /\ IsRebuild(op)
    /\ \E c \in DOMAIN new_mappings :
          \E j, k \in 1..Len(discovered_classes[c]) :
             discovered_classes[c][j].expected_vocab # discovered_classes[c][k].expected_vocab

\* C30 as stated: when a location-aware run over images with pairwise distinct
\* expected terms has ended, every term's detection count is at most 4.
C30_DetectionCountAtMostFour ==
    (policy = "location_aware" /\ run_outcome # "running") =>
        \A t \in MappedTerms : detection_frequency[t] <= GridCells

====
